---- MODULE Spec2Model ----
(***************************************************************************)
(* Verification model of two subsystems of aws-samples/mistral-on-aws:     *)
(*                                                                         *)
(*  1. Blogs/Customer-Support: the LangGraph ticket workflow of            *)
(*     cs_cust_support_flow.py (specification SpecFlow).                   *)
(*  2. MCP/MCP_Mistral_app_demo: the Bedrock Converse reasoning loop of    *)
(*     src/agent.py with the tool registry of src/utility.py               *)
(*     (specification SpecAgent).                                          *)
(*                                                                         *)
(* Text is a sequence of one-token strings, so that strip(), lower() and   *)
(* the regular expressions of the code are computed, not assumed.          *)
(* An optional value is a sequence: <<>> is "not set", <<v>> is "set to v".*)
(***************************************************************************)
EXTENDS Integers, Sequences, FiniteSets, TLC

VARIABLES
    \* ---- Customer-Support flow (JiraAppState and its environment) ----
    pc,            \* graph node about to run, "END", or "raised"
    state,         \* JiraAppState: the channel values of the running graph
    usageHeap,     \* list objects holding usage records, by reference
    selfState,     \* CustomerSupport.self.state: <<>> or <<ref to a usage list>>
    jiraWrites,    \* successful update_custom_field_value calls, in order
    invocations,   \* history: completed model invocations of this run
    visited,       \* history: graph nodes entered, in order
    failedAt,      \* history: <<>> or <<node that raised>>
    nextId,        \* next message id
    suspended,     \* runs of other tickets, each with its own CustomerSupport
    json_string,   \* Utility.clean_json_string: the argument of the call
    cleaned,       \* Utility.clean_json_string: <<>> or <<the string returned>>
    returned,      \* <<>> or <<what generate_response_for_ticket returned to main>>
    \* ---- MCP agent (BedrockConverseAgent and UtilityHelper) ----
    apc,           \* position of the reasoning loop
    amessages,     \* BedrockConverseAgent.messages
    tools,         \* UtilityHelper._tools: registered names -> tool record
    callback,      \* UtilityHelper.tool_usage_callback: "unset", "ok", "faulty"
    tags,          \* BedrockConverseAgent.response_output_tags
    stack,         \* frames of the recursion that handle a return or an exception
    pending,       \* content blocks of the tool_use message being processed
    blockIdx,      \* index of the next block of pending
    toolResponse,  \* tool_response list being collected
    carry,         \* value being returned or exception being raised
    turn,          \* the top-level call of this turn
    modelCalls,    \* history: calls of client.converse of this turn, in order
    toolCalls,     \* history: execute_tool calls of this turn, in order
    notified,      \* history: observer notifications of this turn, in order
    apiCalls       \* history: calls of client.converse made by this agent

flowVars == <<pc, state, usageHeap, selfState, jiraWrites, invocations, visited,
              failedAt, nextId, suspended, json_string, cleaned, returned>>
agentVars == <<apc, amessages, tools, callback, tags, stack, pending, blockIdx,
               toolResponse, carry, turn, modelCalls, toolCalls, notified, apiCalls>>
utilVars == <<json_string, cleaned>>
vars == <<flowVars, agentVars>>

Unset == <<>>
Some(v) == <<v>>
IsSet(o) == o # <<>>
Get(o) == o[1]

Last(s) == s[Len(s)]

IsPrefix(p, q) == Len(p) <= Len(q) /\ \A i \in 1..Len(p) : p[i] = q[i]

(***************************************************************************)
(* Python string operations on token sequences                             *)
(***************************************************************************)
Whitespace == {" ", "\n", "\t"}

RECURSIVE LStrip(_)
LStrip(s) ==
    IF s # <<>> /\ Head(s) \in Whitespace THEN LStrip(Tail(s)) ELSE s

RECURSIVE RStrip(_)
RStrip(s) ==
    IF s # <<>> /\ Last(s) \in Whitespace
    THEN RStrip(SubSeq(s, 1, Len(s) - 1))
    ELSE s

\* str.strip()
Strip(s) == RStrip(LStrip(s))

UpperLetters ==
    <<"A","B","C","D","E","F","G","H","I","J","K","L","M",
      "N","O","P","Q","R","S","T","U","V","W","X","Y","Z">>
LowerLetters ==
    <<"a","b","c","d","e","f","g","h","i","j","k","l","m",
      "n","o","p","q","r","s","t","u","v","w","x","y","z">>

LowerChar(c) ==
    IF \E i \in DOMAIN UpperLetters : UpperLetters[i] = c
    THEN LowerLetters[CHOOSE i \in DOMAIN UpperLetters : UpperLetters[i] = c]
    ELSE c

\* str.lower()
Lower(s) == [i \in DOMAIN s |-> LowerChar(s[i])]

(***************************************************************************)
(* Customer-Support flow: data                                             *)
(***************************************************************************)
\* Bounds of the model
MaxAttachments == 1
MaxToolCalls == 2

NodeCategorize == "Determine Ticket Category"
NodeAssign == "Assign Ticket Category in JIRA"
NodeExtractTxn == "Extract Transaction ID"
NodeExtractOrd == "Extract Order Number"
NodeFindTxn == "Find Transaction Details"
NodeFindOrd == "Find Order Details"
NodeTools == "tools"
NodeGenerate == "Generate Response"
NodeUpdate == "Update Response in JIRA"

TxtTransactionLower == <<"t","r","a","n","s","a","c","t","i","o","n">>
TxtTransaction == <<"T","r","a","n","s","a","c","t","i","o","n">>
TxtTransactionUpper == <<"T","R","A","N","S","A","C","T","I","O","N">>
TxtDelivery == <<"D","e","l","i","v","e","r","y">>
TxtRefunds == <<"R","e","f","u","n","d","s">>
TxtOther == <<"O","t","h","e","r">>

\* What the guardrailed model may answer to the categorisation prompt: the
\* four labels of the prompt, and answers that do not follow it.
CategoryReplies ==
    { TxtTransaction,
      <<" ">> \o TxtTransactionLower \o <<"\n">>,
      TxtTransactionUpper,
      TxtDelivery,
      TxtRefunds,
      TxtOther,
      TxtTransaction \o <<".">> }

\* Tokens of an extraction answer
\* the three backticks of a fenced block
Fence == "FENCE"
TokTid == "{transactionid: T-1}"
TokOrd == "{orderno: O-1}"
TokEmptyObj == "{}"
TokArray == "[T-1]"
TokProse == "The id is T-1"

ExtractionReplies ==
    { <<TokTid>>,
      <<TokOrd>>,
      <<Fence, "json", "\n", TokTid, "\n", Fence>>,
      <<Fence, "json", "\n", TokOrd, "\n", Fence>>,
      <<Fence, "\n", TokOrd, "\n", Fence>>,
      <<TokEmptyObj>>,
      <<TokArray>>,
      <<TokProse>> }

\* The tickets of the model: get_jira_ticket's result for an existing issue.
TicketKeys == {"AS-5"}
Summary == <<"Order missing">>
Description == <<"Order O-1 never arrived">>

FileNames == <<"AS-5-photo1.jpg", "AS-5-photo2.jpg", "AS-5-photo3.jpg">>

AttachmentLists ==
    { [i \in 1..n |-> [filename |-> FileNames[i]]] : n \in 0..MaxAttachments }

(***************************************************************************)
(* Utility.clean_json_string and json.loads                                *)
(***************************************************************************)
\* Positions where the opening of the pattern (fence, json, newline) matches
FenceOpenings(s) ==
    { i \in 1..(Len(s) - 2) :
        s[i] = Fence /\ s[i + 1] = "json" /\ s[i + 2] = "\n" }

\* Positions of the closing fence for an opening at i
FenceClosings(s, i) == { j \in (i + 3)..Len(s) : s[j] = Fence }

Min(S) == CHOOSE x \in S : \A y \in S : x <= y
Max(S) == CHOOSE x \in S : \A y \in S : x >= y

\* Mutant: the text after a json-tagged opening is returned even when no
\* closing fence follows
CleanJsonStringOpenOnly(s) ==
    IF FenceOpenings(s) # {}
    THEN LET i == Min(FenceOpenings(s))
             j == IF FenceClosings(s, i) # {} THEN Min(FenceClosings(s, i)) ELSE Len(s) + 1
         IN Strip(SubSeq(s, i + 3, j - 1))
    ELSE Strip(s)

\* re.search(pattern, s, re.DOTALL) with a lazy group: the leftmost opening that
\* has a closing fence, and the nearest closing fence after it.
CleanJsonString(s) ==
    LET opens == { i \in FenceOpenings(s) : FenceClosings(s, i) # {} } IN
    IF opens # {}
    THEN LET i == Min(opens)
             j == Min(FenceClosings(s, i))
         IN Strip(SubSeq(s, i + 3, j - 1))
    ELSE Strip(s)

\* The JSON documents of the model, as json.loads returns them
JsonValue(tok) ==
    CASE tok = TokTid -> [kind |-> "object", keys |-> {"transactionid"}, val |-> "T-1"]
      [] tok = TokOrd -> [kind |-> "object", keys |-> {"orderno"}, val |-> "O-1"]
      [] tok = TokEmptyObj -> [kind |-> "object", keys |-> {}, val |-> ""]
      [] tok = TokArray -> [kind |-> "array", keys |-> {}, val |-> ""]
      [] OTHER -> [kind |-> "invalid", keys |-> {}, val |-> ""]

\* json.loads(s): one JSON document, surrounding whitespace allowed;
\* kind "invalid" stands for JSONDecodeError.
JsonLoads(s) ==
    LET t == Strip(s) IN
    IF Len(t) = 1 THEN JsonValue(t[1])
    ELSE [kind |-> "invalid", keys |-> {}, val |-> ""]

\* Mutant: jsonobj.get(key, ''), which yields a default instead of raising
SubscriptOrDefault(jsonobj, key) ==
    IF jsonobj.kind = "object" /\ key \in jsonobj.keys
    THEN Some(jsonobj.val)
    ELSE Some("")

\* jsonobj[key]: <<value>>, or <<>> when the subscript raises
\* (KeyError on an object without the key, TypeError on a list).
Subscript(jsonobj, key) ==
    IF jsonobj.kind = "object" /\ key \in jsonobj.keys
    THEN Some(jsonobj.val)
    ELSE Unset

(***************************************************************************)
(* Customer-Support flow: messages, usage and the collaborators            *)
(***************************************************************************)
Msg(id, type, content) ==
    [id |-> id, type |-> type, content |-> content, tool_calls |-> <<>>,
     tool_call_id |-> 0, status |-> "",
     model_name |-> "", latency |-> [isList |-> FALSE, value |-> 0, samples |-> <<>>],
     input_tokens |-> 0, output_tokens |-> 0]

\* An AIMessage as a chat model returns it: content, tool calls,
\* response_metadata (model_name, metrics.latencyMs) and usage_metadata.
AIMsg(id, content, calls, model, latency) ==
    [id |-> id, type |-> "ai", content |-> content, tool_calls |-> calls,
     tool_call_id |-> 0, status |-> "",
     model_name |-> model, latency |-> latency,
     input_tokens |-> 10 * id, output_tokens |-> id]

\* metrics.latencyMs is reported as a number or as a list of samples
Latencies ==
    { [isList |-> FALSE, value |-> 120, samples |-> <<>>],
      [isList |-> TRUE, value |-> 0, samples |-> <<70, 60>>] }

RECURSIVE SumSeq(_)
SumSeq(s) == IF s = <<>> THEN 0 ELSE Head(s) + SumSeq(Tail(s))

\* Mutant: only the first sample of a latency list is recorded
UsageRecordFirstSample(ai_msg) ==
    [model_name |-> ai_msg.model_name,
     input_tokens |-> ai_msg.input_tokens,
     output_tokens |-> ai_msg.output_tokens,
     latency |-> IF ai_msg.latency.isList
                 THEN ai_msg.latency.samples[1]
                 ELSE ai_msg.latency.value]

\* The record add_usage appends for ai_msg
UsageRecord(ai_msg) ==
    [model_name |-> ai_msg.model_name,
     input_tokens |-> ai_msg.input_tokens,
     output_tokens |-> ai_msg.output_tokens,
     latency |-> IF ai_msg.latency.isList
                 THEN SumSeq(ai_msg.latency.samples)
                 ELSE ai_msg.latency.value]

\* Mutant: add_usage that records nothing when latencyMs is a list
AddUsageScalarOnly(usage, ai_msg) ==
    IF ai_msg.latency.isList THEN usage ELSE Append(usage, UsageRecord(ai_msg))

\* CustomerSupport.add_usage on the usage list of the state it is given
AddUsage(usage, ai_msg) == Append(usage, UsageRecord(ai_msg))

\* Mutant: a messages channel without reducer, overwritten by the update
AddMessagesOverwrite(left, right) == right

\* langgraph's add_messages reducer of MessagesState: a returned message
\* replaces the channel's message of the same id, a new one is appended.
RECURSIVE AddMessages(_, _)
AddMessages(left, right) ==
    IF right = <<>> THEN left
    ELSE LET m == Head(right)
             hit == { i \in DOMAIN left : left[i].id = m.id }
         IN AddMessages(
                IF hit # {} THEN [left EXCEPT ![Min(hit)] = m] ELSE Append(left, m),
                Tail(right))

\* The record of one model invocation (history)
Invocation(node, model, input) == [node |-> node, model |-> model, input |-> input]

SystemPrompt == <<"You are a professional and courteous customer support agent">>
CategorizePrompt(st) ==
    <<"Task: Categorize the support ticket">> \o st.summary \o st.description
ExtractTxnPrompt == <<"Task: Extract and return the transaction ID">>
ExtractOrdPrompt == <<"Task: Extract and return the order number">>
AssessPrompt == <<"Task: Analyze the two images">>
FindOrdPrompt(st, details) ==
    <<"Task: Respond to the question using the order details">>
        \o st.summary \o st.description \o <<Get(st.order_no)>> \o details
GeneratePrompt(context) ==
    <<"Task: Generate a response to the customer's query">> \o context
\* Utility.add_image_content: the image block of a file
ImageOf(file) == file

\* Database.execute_query: the matching rows as JSON, or not_found_message
DbRows == <<"[{rows}]">>
QueryResults(not_found_message) == { DbRows, not_found_message }

ToolNames == {"assess_damaged_delivery", "find_refund_status"}

\* tool_calls of the answer of llm_with_tools
ToolCallLists ==
    { [i \in DOMAIN names |-> [name |-> names[i], id |-> i]] :
        names \in UNION { [1..n -> ToolNames] : n \in 0..MaxToolCalls } }

\* Mutant: the routing predicate without .lower()
DecideTicketFlowConditionCaseSensitive(st) ==
    IF Get(st.category) = TxtTransactionLower
    THEN NodeExtractTxn
    ELSE NodeExtractOrd

\* Mutant: the conditional edge that routes past the extraction stages
DecideTicketFlowConditionSkipsExtraction(st) ==
    IF Lower(Get(st.category)) = TxtTransactionLower
    THEN NodeFindTxn
    ELSE NodeFindOrd

\* CustomerSupport.decide_ticket_flow_condition
DecideTicketFlowCondition(st) ==
    IF Lower(Get(st.category)) = TxtTransactionLower
    THEN NodeExtractTxn
    ELSE NodeExtractOrd

\* Mutant: the conditional edge that never takes the tool node
OrderQueryDecisionNeverTools(st) == NodeGenerate

\* CustomerSupport.order_query_decision
OrderQueryDecision(st) ==
    IF Last(st.messages).tool_calls # <<>> THEN NodeTools ELSE NodeGenerate

\* CustomerSupport.get_jira_ticket for an existing issue
InitialState(key, attachments) ==
    [key |-> key, summary |-> Summary, description |-> Description,
     attachments |-> attachments, usage |-> 1,
     messages |-> <<Msg(0, "system", SystemPrompt)>>,
     category |-> Unset, response |-> Unset,
     transaction_id |-> Unset, order_no |-> Unset]

(***************************************************************************)
(* Customer-Support flow: the graph of build_graph                         *)
(***************************************************************************)
\* No call of clean_json_string is being observed
UtilIdle ==
    /\ json_string = <<>>
    /\ cleaned = <<>>

AgentIdle ==
    /\ apc = "idle"
    /\ amessages = <<>>
    /\ tools = <<>>
    /\ callback = "unset"
    /\ tags = <<>>
    /\ stack = <<>>
    /\ pending = <<>>
    /\ blockIdx = 1
    /\ toolResponse = <<>>
    /\ carry = <<>>
    /\ turn = <<>>
    /\ modelCalls = <<>>
    /\ toolCalls = <<>>
    /\ notified = <<>>
    /\ apiCalls = 0

\* generate_response_for_ticket up to app.invoke: a fresh CustomerSupport,
\* the state of get_jira_ticket, the graph at its entry node.
InitFlow ==
    /\ pc = NodeCategorize
    /\ \E key \in TicketKeys, att \in AttachmentLists :
           state = InitialState(key, att)
    /\ usageHeap = <<(<<>>)>>
    /\ selfState = Unset
    /\ jiraWrites = <<>>
    /\ invocations = <<>>
    /\ visited = <<>>
    /\ failedAt = Unset
    /\ nextId = 1
    /\ suspended = <<>>
    /\ UtilIdle
    /\ returned = Unset
    /\ AgentIdle

\* A node raised: the run stops, the in-place changes made before stay.
Raise(node) ==
    /\ pc' = "raised"
    /\ failedAt' = Some(node)

\* determine_ticket_category_tool
DetermineTicketCategory ==
    /\ pc = NodeCategorize
    /\ visited' = Append(visited, NodeCategorize)
    /\ selfState' = Some([key |-> state.key, usage |-> state.usage])
    /\ LET human == Msg(nextId, "human", CategorizePrompt(state))
           msgs == Append(state.messages, human)
       IN \/ \E reply \in CategoryReplies, lat \in Latencies :
                LET ai == AIMsg(nextId + 1, reply, <<>>, "llm_with_guardrails", lat)
                    out == Append(msgs, ai)
                IN /\ invocations' = Append(invocations,
                          Invocation(NodeCategorize, "llm_with_guardrails", msgs))
                   /\ usageHeap' = [usageHeap EXCEPT ![state.usage] = AddUsage(@, ai)]
                   /\ state' = [state EXCEPT !.messages = AddMessages(out, out),
                                             !.category = Some(Strip(reply))]
                   /\ nextId' = nextId + 2
                   /\ pc' = NodeAssign
                   /\ UNCHANGED failedAt
          \/ /\ state' = [state EXCEPT !.messages = msgs]
             /\ nextId' = nextId + 1
             /\ Raise(NodeCategorize)
             /\ UNCHANGED <<invocations, usageHeap>>
    /\ UNCHANGED <<jiraWrites, suspended, utilVars, returned, agentVars>>

\* Mutant: the stage lower-cases the category of the state before writing it
AssignTicketCategoryInJiraNormalising ==
    /\ pc = NodeAssign
    /\ visited' = Append(visited, NodeAssign)
    /\ \/ /\ jiraWrites' = Append(jiraWrites,
                 [key |-> state.key, field |-> "category",
                  value |-> Lower(Get(state.category))])
          /\ state' = [state EXCEPT !.category = Some(Lower(Get(@)))]
          /\ pc' = DecideTicketFlowCondition(state)
          /\ UNCHANGED failedAt
       \/ /\ Raise(NodeAssign)
          /\ UNCHANGED <<jiraWrites, state>>
    /\ UNCHANGED <<usageHeap, selfState, invocations, nextId, suspended, utilVars, returned, agentVars>>

\* assign_ticket_category_in_jira_tool, then the conditional edge
AssignTicketCategoryInJira ==
    /\ pc = NodeAssign
    /\ visited' = Append(visited, NodeAssign)
    /\ \/ /\ jiraWrites' = Append(jiraWrites,
                 [key |-> state.key, field |-> "category", value |-> Get(state.category)])
          /\ pc' = DecideTicketFlowCondition(state)
          /\ UNCHANGED failedAt
       \/ /\ Raise(NodeAssign)
          /\ UNCHANGED jiraWrites
    /\ UNCHANGED <<state, usageHeap, selfState, invocations, nextId,
                   suspended, utilVars, returned, agentVars>>

\* The tail of both extraction stages: append the answer, clean it, parse
\* it and read the expected key into the given field.
ExtractInto(node, field, jsonKey, msgs, ai, model, input, next) ==
    LET out == Append(msgs, ai)
        jsonobj == JsonLoads(CleanJsonString(ai.content))
        value == Subscript(jsonobj, jsonKey)
    IN /\ invocations' = Append(invocations, Invocation(node, model, input))
       /\ usageHeap' = [usageHeap EXCEPT ![state.usage] = AddUsage(@, ai)]
       /\ nextId' = nextId + 2
       /\ IF IsSet(value)
          THEN /\ state' = [state EXCEPT !.messages = AddMessages(out, out),
                                         ![field] = value]
               /\ pc' = next
               /\ UNCHANGED failedAt
          ELSE /\ state' = [state EXCEPT !.messages = out]
               /\ Raise(node)

\* extract_transaction_id_tool
ExtractTransactionId ==
    /\ pc = NodeExtractTxn
    /\ visited' = Append(visited, NodeExtractTxn)
    /\ LET human == Msg(nextId, "human", ExtractTxnPrompt)
           msgs == Append(state.messages, human)
           use_vlm == Len(state.attachments) > 0
           model == IF use_vlm THEN "vision_llm" ELSE "llm"
           input == IF use_vlm
                    THEN <<Msg(nextId, "human", ExtractTxnPrompt
                               \o <<ImageOf(state.attachments[1].filename)>>)>>
                    ELSE msgs
       IN \/ \E reply \in ExtractionReplies, lat \in Latencies :
                ExtractInto(NodeExtractTxn, "transaction_id", "transactionid", msgs,
                            AIMsg(nextId + 1, reply, <<>>, model, lat),
                            model, input, NodeFindTxn)
          \/ /\ state' = [state EXCEPT !.messages = msgs]
             /\ nextId' = nextId + 1
             /\ Raise(NodeExtractTxn)
             /\ UNCHANGED <<invocations, usageHeap>>
    /\ UNCHANGED <<selfState, jiraWrites, suspended, utilVars, returned, agentVars>>

\* Mutant: the order number is read from the first attachment by the vision
\* model when the ticket has one
ExtractOrderNumberUsingVision ==
    /\ pc = NodeExtractOrd
    /\ visited' = Append(visited, NodeExtractOrd)
    /\ LET human == Msg(nextId, "human", ExtractOrdPrompt)
           msgs == Append(state.messages, human)
           use_vlm == Len(state.attachments) > 0
           model == IF use_vlm THEN "vision_llm" ELSE "llm"
           input == IF use_vlm
                    THEN <<Msg(nextId, "human", ExtractOrdPrompt
                               \o <<ImageOf(state.attachments[1].filename)>>)>>
                    ELSE msgs
       IN \/ \E reply \in ExtractionReplies, lat \in Latencies :
                ExtractInto(NodeExtractOrd, "order_no", "orderno", msgs,
                            AIMsg(nextId + 1, reply, <<>>, model, lat),
                            model, input, NodeFindOrd)
          \/ /\ state' = [state EXCEPT !.messages = msgs]
             /\ nextId' = nextId + 1
             /\ Raise(NodeExtractOrd)
             /\ UNCHANGED <<invocations, usageHeap>>
    /\ UNCHANGED <<selfState, jiraWrites, suspended, utilVars, returned, agentVars>>

\* extract_order_number_tool
ExtractOrderNumber ==
    /\ pc = NodeExtractOrd
    /\ visited' = Append(visited, NodeExtractOrd)
    /\ LET human == Msg(nextId, "human", ExtractOrdPrompt)
           msgs == Append(state.messages, human)
       IN \/ \E reply \in ExtractionReplies, lat \in Latencies :
                ExtractInto(NodeExtractOrd, "order_no", "orderno", msgs,
                            AIMsg(nextId + 1, reply, <<>>, "llm", lat),
                            "llm", msgs, NodeFindOrd)
          \/ /\ state' = [state EXCEPT !.messages = msgs]
             /\ nextId' = nextId + 1
             /\ Raise(NodeExtractOrd)
             /\ UNCHANGED <<invocations, usageHeap>>
    /\ UNCHANGED <<selfState, jiraWrites, suspended, utilVars, returned, agentVars>>

TxnNotFound(st) == <<"No record found for Transaction ID:", Get(st.transaction_id)>>
OrdNotFound(st) == <<"No records found for order number", Get(st.order_no)>>
TxnSuffix == <<" ", "\n", "In case of transaction failures, customer's account is not debited">>

\* Mutant: the lookup raises when the query finds no record
FindTransactionDetailsRaisingOnEmpty ==
    /\ pc = NodeFindTxn
    /\ visited' = Append(visited, NodeFindTxn)
    /\ \E result \in QueryResults(TxnNotFound(state)) :
           IF result = TxnNotFound(state)
           THEN Raise(NodeFindTxn) /\ UNCHANGED state
           ELSE /\ state' = [state EXCEPT !.response = Some(result \o TxnSuffix)]
                /\ pc' = NodeGenerate
                /\ UNCHANGED failedAt
    /\ UNCHANGED <<usageHeap, selfState, jiraWrites, invocations, nextId,
                   suspended, utilVars, returned, agentVars>>

\* find_transaction_details_tool
FindTransactionDetails ==
    /\ pc = NodeFindTxn
    /\ visited' = Append(visited, NodeFindTxn)
    /\ \E result \in QueryResults(TxnNotFound(state)) :
           state' = [state EXCEPT !.response = Some(result \o TxnSuffix)]
    /\ pc' = NodeGenerate
    /\ UNCHANGED <<usageHeap, selfState, jiraWrites, invocations, failedAt, nextId,
                   suspended, utilVars, returned, agentVars>>

\* What the tool-bound model answers in Find Order Details
OrderAnswers == { <<"Your order is on its way">>, <<>> }

\* find_order_details_tool, then the conditional edge order_query_decision
FindOrderDetails ==
    /\ pc = NodeFindOrd
    /\ visited' = Append(visited, NodeFindOrd)
    /\ \E result \in QueryResults(OrdNotFound(state)) :
         LET human == Msg(nextId, "human", FindOrdPrompt(state, result))
             msgs == Append(state.messages, human)
         IN \/ \E content \in OrderAnswers, calls \in ToolCallLists, lat \in Latencies :
                  LET ai == AIMsg(nextId + 1, content, calls, "llm", lat)
                      out == Append(msgs, ai)
                      st == [state EXCEPT !.messages = AddMessages(out, out),
                                          !.response = Some(content)]
                  IN /\ invocations' = Append(invocations,
                            Invocation(NodeFindOrd, "llm", msgs))
                     /\ usageHeap' = [usageHeap EXCEPT ![state.usage] = AddUsage(@, ai)]
                     /\ state' = st
                     /\ nextId' = nextId + 2
                     /\ pc' = OrderQueryDecision(st)
                     /\ UNCHANGED failedAt
            \/ /\ state' = [state EXCEPT !.messages = msgs]
               /\ nextId' = nextId + 1
               /\ Raise(NodeFindOrd)
               /\ UNCHANGED <<invocations, usageHeap>>
    /\ UNCHANGED <<selfState, jiraWrites, suspended, utilVars, returned, agentVars>>

\* The ToolMessage the tool node returns for tool call `call`
ToolMsg(id, call, content, status) ==
    [Msg(id, "tool", content) EXCEPT !.tool_call_id = call.id, !.status = status]

RefundNotFound == <<"No refund record found for order no: O-1">>
AssessAnswers == { <<"Same product, the bottle is dented">> }
ListedPicture == "./data/listed-bottle.jpg"

\* What one tool call can meet: a vision answer or a failing vision call
\* for assess_damaged_delivery, the query's result for find_refund_status.
OutcomesOf(name) ==
    IF name = "assess_damaged_delivery"
    THEN { [ok |-> TRUE, text |-> t, lat |-> l] : t \in AssessAnswers, l \in Latencies }
         \cup { [ok |-> FALSE, text |-> <<"Error: vision model failed">>,
                 lat |-> CHOOSE l \in Latencies : ~l.isList] }
    ELSE { [ok |-> TRUE, text |-> t, lat |-> CHOOSE l \in Latencies : ~l.isList] :
             t \in QueryResults(RefundNotFound) }

\* The input of the vision model in assess_damaged_delivery: the prompt, the
\* listed picture and, when the ticket has one, the customer's picture.
AssessInput(id, st) ==
    <<Msg(id, "human",
          AssessPrompt \o <<ImageOf(ListedPicture)>>
          \o (IF Len(st.attachments) > 0
              THEN <<ImageOf(st.attachments[1].filename)>> ELSE <<>>))>>

\* The tool node on the tool calls from index i on. acc holds the messages
\* list of the injected state (appended to in place by the tool), the usage
\* list self.state refers to, the invocations, the ToolMessages and the
\* next message id.
RECURSIVE RunTools(_, _, _, _)
RunTools(calls, oc, i, acc) ==
    IF i > Len(calls) THEN acc
    ELSE LET call == calls[i]
             o == oc[i]
         IN IF call.name = "assess_damaged_delivery"
            THEN LET human == Msg(acc.nid, "human", AssessPrompt)
                     ai == AIMsg(acc.nid + 1, o.text, <<>>, "vision_llm", o.lat)
                 IN RunTools(calls, oc, i + 1,
                      [msgs |-> Append(acc.msgs, human),
                       usage |-> IF o.ok THEN AddUsage(acc.usage, ai) ELSE acc.usage,
                       invs |-> IF o.ok
                                THEN Append(acc.invs, Invocation(NodeTools, "vision_llm",
                                                AssessInput(acc.nid, state)))
                                ELSE acc.invs,
                       outs |-> Append(acc.outs,
                                  ToolMsg(acc.nid + 2, call, o.text,
                                          IF o.ok THEN "success" ELSE "error")),
                       nid |-> acc.nid + 3])
            ELSE RunTools(calls, oc, i + 1,
                      [acc EXCEPT !.outs = Append(@, ToolMsg(acc.nid, call, o.text, "success")),
                                  !.nid = acc.nid + 1])

\* Mutant: the tool node has an edge back to Find Order Details
ToolsBackToFindOrderDetails ==
    /\ pc = NodeTools
    /\ visited' = Append(visited, NodeTools)
    /\ IsSet(selfState)
    /\ LET calls == Last(state.messages).tool_calls
           ref == Get(selfState).usage
       IN \E oc \in [DOMAIN calls -> UNION { OutcomesOf(n) : n \in ToolNames }] :
            /\ \A i \in DOMAIN calls : oc[i] \in OutcomesOf(calls[i].name)
            /\ LET r == RunTools(calls, oc, 1,
                          [msgs |-> state.messages, usage |-> usageHeap[ref],
                           invs |-> invocations, outs |-> <<>>, nid |-> nextId])
               IN /\ usageHeap' = [usageHeap EXCEPT ![ref] = r.usage]
                  /\ invocations' = r.invs
                  /\ nextId' = r.nid
                  /\ \/ /\ state' = [state EXCEPT !.messages = AddMessages(r.msgs, r.outs)]
                        /\ pc' = NodeFindOrd
                        /\ UNCHANGED failedAt
                     \/ /\ \E i \in DOMAIN calls : ~oc[i].ok
                        /\ state' = [state EXCEPT !.messages = r.msgs]
                        /\ Raise(NodeTools)
    /\ UNCHANGED <<selfState, jiraWrites, suspended, utilVars, returned, agentVars>>

\* The prebuilt ToolNode over assess_damaged_delivery and find_refund_status
Tools ==
    /\ pc = NodeTools
    /\ visited' = Append(visited, NodeTools)
    /\ IsSet(selfState)
    /\ LET calls == Last(state.messages).tool_calls
           ref == Get(selfState).usage
       IN \E oc \in [DOMAIN calls -> UNION { OutcomesOf(n) : n \in ToolNames }] :
            /\ \A i \in DOMAIN calls : oc[i] \in OutcomesOf(calls[i].name)
            /\ LET r == RunTools(calls, oc, 1,
                          [msgs |-> state.messages, usage |-> usageHeap[ref],
                           invs |-> invocations, outs |-> <<>>, nid |-> nextId])
               IN /\ usageHeap' = [usageHeap EXCEPT ![ref] = r.usage]
                  /\ invocations' = r.invs
                  /\ nextId' = r.nid
                  /\ \/ /\ state' = [state EXCEPT !.messages = AddMessages(r.msgs, r.outs)]
                        /\ pc' = NodeGenerate
                        /\ UNCHANGED failedAt
                     \/ /\ \E i \in DOMAIN calls : ~oc[i].ok
                        /\ state' = [state EXCEPT !.messages = r.msgs]
                        /\ Raise(NodeTools)
    /\ UNCHANGED <<selfState, jiraWrites, suspended, utilVars, returned, agentVars>>

GenerateAnswers ==
    { <<"Your refund was issued">>,
      <<"I am sorry, I do not have enough information to provide an accurate response.">> }

\* messages[:-3]
DropLast3(msgs) == SubSeq(msgs, 1, Len(msgs) - 3)

\* generate_response_tool
GenerateResponse ==
    /\ pc = NodeGenerate
    /\ visited' = Append(visited, NodeGenerate)
    /\ LET last_ai_message == Last(state.messages)
           collapse == last_ai_message.type = "tool"
           response == IF collapse THEN last_ai_message.content ELSE Get(state.response)
           local == IF collapse
                    THEN Append(DropLast3(state.messages), Msg(nextId, "ai", response))
                    ELSE state.messages
           msgs == Append(local, Msg(nextId + 1, "human", GeneratePrompt(response)))
       IN \/ \E reply \in GenerateAnswers, lat \in Latencies :
                LET ai == AIMsg(nextId + 2, reply, <<>>, "llm_with_guardrails", lat)
                    out == Append(msgs, ai)
                    channel == IF collapse THEN state.messages ELSE out
                IN /\ invocations' = Append(invocations,
                          Invocation(NodeGenerate, "llm_with_guardrails", msgs))
                   /\ usageHeap' = [usageHeap EXCEPT ![state.usage] = AddUsage(@, ai)]
                   /\ state' = [state EXCEPT !.messages = AddMessages(channel, out),
                                             !.response = Some(reply)]
                   /\ nextId' = nextId + 3
                   /\ pc' = NodeUpdate
                   /\ UNCHANGED failedAt
          \/ /\ state' = [state EXCEPT !.messages = IF collapse THEN @ ELSE msgs]
             /\ nextId' = nextId + 2
             /\ Raise(NodeGenerate)
             /\ UNCHANGED <<invocations, usageHeap>>
    /\ UNCHANGED <<selfState, jiraWrites, suspended, utilVars, returned, agentVars>>

\* What a Python function without a return statement returns
PyNone == [type |-> "NoneType"]

\* Mutant: the response field is updated and the stage raises afterwards
UpdateResponseInJiraThenRaise ==
    /\ pc = NodeUpdate
    /\ visited' = Append(visited, NodeUpdate)
    /\ jiraWrites' = Append(jiraWrites,
           [key |-> state.key, field |-> "response", value |-> Get(state.response)])
    /\ \/ pc' = "END" /\ returned' = Some(PyNone) /\ UNCHANGED failedAt
       \/ Raise(NodeUpdate) /\ UNCHANGED returned
    /\ UNCHANGED <<state, usageHeap, selfState, invocations, nextId,
                   suspended, utilVars, agentVars>>

\* Mutant: the response field is updated twice
UpdateResponseInJiraTwice ==
    /\ pc = NodeUpdate
    /\ visited' = Append(visited, NodeUpdate)
    /\ \/ /\ jiraWrites' = jiraWrites \o
                 << [key |-> state.key, field |-> "response", value |-> Get(state.response)],
                    [key |-> state.key, field |-> "response", value |-> Get(state.response)] >>
          /\ pc' = "END"
          /\ returned' = Some(PyNone)
          /\ UNCHANGED failedAt
       \/ /\ Raise(NodeUpdate)
          /\ UNCHANGED <<jiraWrites, returned>>
    /\ UNCHANGED <<state, usageHeap, selfState, invocations, nextId,
                   suspended, utilVars, agentVars>>

\* update_response_in_jira_tool, the edge to END, and the rest of
\* generate_response_for_ticket: app.invoke returns the final state, its usage
\* and messages are logged, and the function ends without a return statement
UpdateResponseInJira ==
    /\ pc = NodeUpdate
    /\ visited' = Append(visited, NodeUpdate)
    /\ \/ /\ jiraWrites' = Append(jiraWrites,
                 [key |-> state.key, field |-> "response", value |-> Get(state.response)])
          /\ pc' = "END"
          /\ returned' = Some(PyNone)
          /\ UNCHANGED failedAt
       \/ /\ Raise(NodeUpdate)
          /\ UNCHANGED <<jiraWrites, returned>>
    /\ UNCHANGED <<state, usageHeap, selfState, invocations, nextId,
                   suspended, utilVars, agentVars>>

NextFlow ==
    \/ DetermineTicketCategory
    \/ AssignTicketCategoryInJira
    \/ ExtractTransactionId
    \/ ExtractOrderNumber
    \/ FindTransactionDetails
    \/ FindOrderDetails
    \/ Tools
    \/ GenerateResponse
    \/ UpdateResponseInJira

SpecFlow == InitFlow /\ [][NextFlow]_vars

(***************************************************************************)
(* Customer-Support flow: several tickets with their stages interleaved    *)
(***************************************************************************)
\* Mutant: one CustomerSupport instance serves both tickets, so self.state
\* stays with the instance when the other ticket goes on
SwitchTicketSharingInstance ==
    /\ suspended # <<>>
    /\ pc' = suspended[1].pc
    /\ state' = suspended[1].state
    /\ invocations' = suspended[1].invocations
    /\ visited' = suspended[1].visited
    /\ failedAt' = suspended[1].failedAt
    /\ nextId' = suspended[1].nextId
    /\ suspended' = << [pc |-> pc, state |-> state, selfState |-> suspended[1].selfState,
                        invocations |-> invocations, visited |-> visited,
                        failedAt |-> failedAt, nextId |-> nextId] >>
    /\ UNCHANGED <<selfState, usageHeap, jiraWrites, utilVars, returned, agentVars>>

\* The ticket whose second call of generate_response_for_ticket is modelled
OtherTicketKey == "AS-6"

\* What one call of generate_response_for_ticket owns: its graph position,
\* its state, its CustomerSupport instance (self.state) and its history
TicketRun(p, st, self, invs, vis, failed, nid) ==
    [pc |-> p, state |-> st, selfState |-> self, invocations |-> invs,
     visited |-> vis, failedAt |-> failed, nextId |-> nid]

\* The run that is going on
Current == TicketRun(pc, state, selfState, invocations, visited, failedAt, nextId)

\* Two calls of generate_response_for_ticket, each with a fresh
\* CustomerSupport and the state of get_jira_ticket with its own usage list
InitTickets ==
    /\ pc = NodeCategorize
    /\ \E key \in TicketKeys, att \in AttachmentLists :
         /\ state = InitialState(key, att)
         /\ suspended = << TicketRun(NodeCategorize,
                                     [InitialState(OtherTicketKey, att) EXCEPT !.usage = 2],
                                     Unset, <<>>, <<>>, Unset, 1) >>
    /\ usageHeap = <<(<<>>), (<<>>)>>
    /\ selfState = Unset
    /\ jiraWrites = <<>>
    /\ invocations = <<>>
    /\ visited = <<>>
    /\ failedAt = Unset
    /\ nextId = 1
    /\ UtilIdle
    /\ returned = Unset
    /\ AgentIdle

\* The next stage to run belongs to the other ticket: between two stages
\* the run that is going on is put aside and the other one goes on
SwitchTicket ==
    /\ suspended # <<>>
    /\ pc' = suspended[1].pc
    /\ state' = suspended[1].state
    /\ selfState' = suspended[1].selfState
    /\ invocations' = suspended[1].invocations
    /\ visited' = suspended[1].visited
    /\ failedAt' = suspended[1].failedAt
    /\ nextId' = suspended[1].nextId
    /\ suspended' = <<Current>>
    /\ UNCHANGED <<usageHeap, jiraWrites, utilVars, returned, agentVars>>

\* The answers of the collaborators in the interleaved runs: the category
\* is Transaction or Delivery, the extraction answer is the bare JSON object,
\* the query finds its record, latencies are numbers, the lookup model asks
\* for at most one tool, assess_damaged_delivery
Narrow ==
    /\ \A i \in DOMAIN state.messages :
         LET m == state.messages[i] IN
         /\ ~m.latency.isList
         /\ Len(m.tool_calls) <= 1
         /\ \A j \in DOMAIN m.tool_calls : m.tool_calls[j].name = "assess_damaged_delivery"
         /\ (i = 3 /\ m.type = "ai") => m.content \in {TxtTransaction, TxtDelivery}
         /\ (i = 5 /\ m.type = "ai") => m.content \in {<<TokTid>>, <<TokOrd>>}
         /\ (i = 6 /\ m.type = "human" /\ IsSet(state.order_no))
            => m.content = FindOrdPrompt(state, DbRows)
         /\ (i = 7 /\ m.type = "ai" /\ IsSet(state.order_no))
            => m.content # <<>>
         /\ (m.type = "ai" /\ m.model_name = "llm_with_guardrails" /\ i > 3)
            => m.content = <<"Your refund was issued">>
    /\ \A i \in DOMAIN usageHeap[state.usage] : usageHeap[state.usage][i].latency = 120
    /\ (IsSet(state.transaction_id) /\ IsSet(state.response) /\ pc = NodeGenerate)
       => state.response = Some(DbRows \o TxnSuffix)

NextTickets ==
    \/ DetermineTicketCategory /\ Narrow'
    \/ AssignTicketCategoryInJira /\ Narrow'
    \/ ExtractTransactionId /\ Narrow'
    \/ ExtractOrderNumber /\ Narrow'
    \/ FindTransactionDetails /\ Narrow'
    \/ FindOrderDetails /\ Narrow'
    \/ Tools /\ Narrow'
    \/ GenerateResponse /\ Narrow'
    \/ UpdateResponseInJira /\ Narrow'
    \/ SwitchTicket

SpecTickets == InitTickets /\ [][NextTickets]_vars

(***************************************************************************)
(* Customer-Support flow: one run that is carried on                       *)
(***************************************************************************)
\* The nodes of the graph
GraphNodes ==
    {NodeCategorize, NodeAssign, NodeExtractTxn, NodeExtractOrd, NodeFindTxn,
     NodeFindOrd, NodeTools, NodeGenerate, NodeUpdate}

\* The node that is running returns or raises: app.invoke goes on to the next
\* node, to END, or the exception leaves it
StageCompletes == pc \in GraphNodes /\ pc' \in (GraphNodes \cup {"END", "raised"}) \ {pc}

\* app.invoke runs the next node whenever there is one, and the model, the
\* tools and the ticketing system return or raise in finite time: no node
\* runs forever
SpecFlowLive == SpecFlow /\ WF_pc(StageCompletes)

(***************************************************************************)
(* Customer-Support flow: Determine Ticket Category run again              *)
(***************************************************************************)
\* Mutant: the second run of the ticket starts from the conversation the
\* first one left under the same thread id
RerunOnFreshStateKeepingConversation ==
    /\ pc = NodeAssign
    /\ suspended = <<>>
    /\ suspended' = <<Current>>
    /\ usageHeap' = Append(usageHeap, <<>>)
    /\ state' = [InitialState(state.key, state.attachments) EXCEPT
                   !.usage = Len(usageHeap) + 1, !.messages = state.messages]
    /\ selfState' = Unset
    /\ invocations' = <<>>
    /\ visited' = <<>>
    /\ pc' = NodeCategorize
    /\ UNCHANGED <<nextId, failedAt, jiraWrites, utilVars, returned, agentVars>>

\* The ticket is processed again: generate_response_for_ticket builds a
\* new CustomerSupport and a new state with the same summary and
\* description; the first run is kept aside for comparison
RerunOnFreshState ==
    /\ pc = NodeAssign
    /\ suspended = <<>>
    /\ suspended' = <<Current>>
    /\ usageHeap' = Append(usageHeap, <<>>)
    /\ state' = [InitialState(state.key, state.attachments) EXCEPT
                   !.usage = Len(usageHeap) + 1]
    /\ selfState' = Unset
    /\ invocations' = <<>>
    /\ visited' = <<>>
    /\ nextId' = 1
    /\ pc' = NodeCategorize
    /\ UNCHANGED <<failedAt, jiraWrites, utilVars, returned, agentVars>>

\* determine_ticket_category_tool is called again on the state its first
\* call returned
RerunOnSameState ==
    /\ pc = NodeAssign
    /\ suspended = <<>>
    /\ suspended' = <<Current>>
    /\ pc' = NodeCategorize
    /\ UNCHANGED <<state, usageHeap, selfState, jiraWrites, invocations, visited,
                   failedAt, nextId, utilVars, returned, agentVars>>

\* The calls of the categorisation model in run r: the messages it was
\* given and the text it answered, which the stage appended after them
CategorizeCalls(r) ==
    { [input |-> [j \in DOMAIN r.invocations[i].input |->
                    [type |-> r.invocations[i].input[j].type,
                     content |-> r.invocations[i].input[j].content]],
       output |-> r.state.messages[Len(r.invocations[i].input) + 1].content] :
      i \in { k \in DOMAIN r.invocations : r.invocations[k].node = NodeCategorize } }

\* The model stub is deterministic: the same input messages give the same
\* output
StubIsDeterministic ==
    \A a, b \in CategorizeCalls(Current)
                  \cup UNION { CategorizeCalls(suspended[i]) : i \in DOMAIN suspended } :
        a.input = b.input => a.output = b.output

NextRerun ==
    \/ DetermineTicketCategory /\ StubIsDeterministic'
    \/ RerunOnFreshState
    \/ RerunOnSameState

SpecRerun == InitFlow /\ [][NextRerun]_vars

(***************************************************************************)
(* Utility.clean_json_string on its own                                    *)
(***************************************************************************)
\* The longest run of whitespace put around the parts of an input
MaxBlank == 2

\* A JSON object whose string value holds three backticks, in three tokens
ObjHead == "{note: '"
ObjTail == "'}"

\* The JSON objects of the inputs
JsonObjects == { <<TokOrd>>, <<TokTid>>, <<TokEmptyObj>>, <<ObjHead, Fence, ObjTail>> }

Blanks == UNION { [1..n -> {" ", "\n"}] : n \in 0..MaxBlank }

\* What can open a block: the json-tagged fence, the tag without its
\* newline, another tag, an untagged fence, or nothing
Openings ==
    { <<Fence, "json", "\n">>, <<Fence, "json">>, <<Fence, "json", " ">>,
      <<Fence, "python", "\n">>, <<Fence, "\n">>, <<>> }

\* The strings clean_json_string is called with: text, an opening, blanks,
\* a JSON object or prose, blanks, a closing fence or none, text
CleanInputs ==
    { pre \o open \o b1 \o body \o b2 \o close \o post :
        pre \in { <<>>, <<TokProse>> },
        open \in Openings,
        b1 \in Blanks,
        body \in JsonObjects \cup { <<TokProse>> },
        b2 \in Blanks,
        close \in { <<Fence>>, <<>> },
        post \in { <<>>, <<"\n">> } }

InitClean ==
    /\ json_string \in CleanInputs
    /\ cleaned = <<>>
    /\ pc = "idle"
    /\ state = <<>>
    /\ usageHeap = <<>>
    /\ selfState = Unset
    /\ jiraWrites = <<>>
    /\ invocations = <<>>
    /\ visited = <<>>
    /\ failedAt = Unset
    /\ nextId = 1
    /\ suspended = <<>>
    /\ returned = Unset
    /\ AgentIdle

\* One call of clean_json_string(json_string)
CleanJsonStringCall ==
    /\ cleaned = <<>>
    /\ cleaned' = Some(CleanJsonString(json_string))
    /\ UNCHANGED <<json_string, pc, state, usageHeap, selfState, jiraWrites, invocations,
                   visited, failedAt, nextId, suspended, returned, agentVars>>

NextClean == CleanJsonStringCall

SpecClean == InitClean /\ [][NextClean]_vars

(***************************************************************************)
(* Customer-Support flow: properties                                       *)
(***************************************************************************)
Usage == usageHeap[state.usage]
Visited(node) == \E i \in DOMAIN visited : visited[i] = node
Written(field) == \E i \in DOMAIN jiraWrites : jiraWrites[i].field = field

\* C1: at every stage boundary and at the terminal state, the usage list of
\* the state is as long as the number of model invocations completed so far
\* in the run: text, guardrailed and vision invocations, the vision
\* invocation inside assess_damaged_delivery included.
C1_UsageCountsInvocations ==
    pc # "raised" => Len(Usage) = Len(invocations)

\* C1 witness: a finished run in which assess_damaged_delivery invoked the
\* vision model from the tool node.
C1_Witness ==
    /\ pc = "END"
    /\ \E i \in DOMAIN invocations :
           invocations[i].node = NodeTools /\ invocations[i].model = "vision_llm"
    /\ Len(Usage) >= 5

\* C2 as claimed: when a stage raises, nothing was written to the ticketing
\* system in that run, neither the category nor the response field.
C2_NoWriteWhenRaised ==
    pc = "raised" => jiraWrites = <<>>

\* C2 amended: when a stage raises, the response field has not been written
\* in that run; the category field has been written, once, exactly when the
\* stage that raised comes after Assign Ticket Category in JIRA.
C2_NoResponseWriteWhenRaised ==
    pc = "raised" =>
        /\ ~Written("response")
        /\ Len(jiraWrites) <= 1
        /\ Written("category") <=> Get(failedAt) \notin {NodeCategorize, NodeAssign}

\* C2 witness: an extraction stage raised on an answer that is not JSON,
\* after the category was written.
C2_Witness ==
    /\ pc = "raised"
    /\ Get(failedAt) = NodeExtractOrd
    /\ JsonLoads(CleanJsonString(Last(state.messages).content)).kind = "invalid"
    /\ Written("category")

\* The category is 'transaction' up to letter case (written without lower())
IsTransactionIgnoringCase(category) ==
    /\ Len(category) = Len(TxtTransactionLower)
    /\ \A i \in DOMAIN category :
           category[i] \in {TxtTransactionLower[i], TxtTransactionUpper[i]}

\* C3: after Categorize and the category write, the run enters exactly one
\* extraction branch: Extract Transaction ID then Find Transaction Details
\* iff the category is 'transaction' ignoring case, otherwise Extract Order
\* Number then Find Order Details, never a node of the other branch; at most
\* one of transaction_id and order_no is ever set.
C3_ExclusiveRouting ==
    LET isTxn == IsSet(state.category) /\ IsTransactionIgnoringCase(Get(state.category))
        extract == IF isTxn THEN NodeExtractTxn ELSE NodeExtractOrd
        lookup == IF isTxn THEN NodeFindTxn ELSE NodeFindOrd
        other == IF isTxn THEN {NodeExtractOrd, NodeFindOrd}
                 ELSE {NodeExtractTxn, NodeFindTxn}
    IN /\ \A n \in other : ~Visited(n) /\ pc # n
       /\ Len(visited) >= 3 => visited[3] = extract
       /\ Len(visited) >= 4 => visited[4] = lookup
       /\ (Len(visited) = 2 /\ pc # "raised") => pc = extract
       /\ (Len(visited) = 3 /\ pc # "raised") => pc = lookup
       /\ \A i, j \in DOMAIN visited :
              (visited[i] = visited[j] /\ visited[i] \in {extract, lookup}) => i = j
       /\ ~(IsSet(state.transaction_id) /\ IsSet(state.order_no))
       /\ IsSet(state.transaction_id) => isTxn
       /\ IsSet(state.order_no) => ~isTxn

\* C3 witness: a finished run routed to the transaction branch by a
\* category that differs from 'transaction' in letter case only.
C3_Witness ==
    /\ pc = "END"
    /\ Get(state.category) = TxtTransactionUpper
    /\ Visited(NodeExtractTxn) /\ Visited(NodeFindTxn)
    /\ IsSet(state.transaction_id)

\* The stages of the run other than the tool node, in the order entered
Stages == SelectSeq(visited, LAMBDA n : n # NodeTools)

ResponseWrites == SelectSeq(jiraWrites, LAMBDA w : w.field = "response")

\* C11: a run that reached END has executed, each once and in this order,
\* Categorize, the category write, one extraction stage, the matching
\* lookup stage, Generate Response and the response write (the tool node at
\* most once besides); the response field was written exactly once, last,
\* with the text of the answer Generate Response obtained.
C11_TerminalRunOrder ==
    pc = "END"
    => /\ Len(Stages) = 6
       /\ Stages[1] = NodeCategorize
       /\ Stages[2] = NodeAssign
       /\ <<Stages[3], Stages[4]>> \in { <<NodeExtractTxn, NodeFindTxn>>,
                                         <<NodeExtractOrd, NodeFindOrd>> }
       /\ Stages[5] = NodeGenerate
       /\ Stages[6] = NodeUpdate
       /\ Len(visited) <= 7
       /\ Len(ResponseWrites) = 1
       /\ Last(jiraWrites) = ResponseWrites[1]
       /\ ResponseWrites[1].key = state.key
       /\ Last(invocations).node = NodeGenerate
       /\ Last(state.messages).type = "ai"
       /\ Last(state.messages).model_name = "llm_with_guardrails"
       /\ ResponseWrites[1].value = Last(state.messages).content

\* C11 witness: a finished run over the order branch and the tool node
\* whose written response is the fallback text
C11_Witness ==
    /\ pc = "END"
    /\ visited = <<NodeCategorize, NodeAssign, NodeExtractOrd, NodeFindOrd, NodeTools,
                   NodeGenerate, NodeUpdate>>
    /\ Len(ResponseWrites) = 1
    /\ ResponseWrites[1].value =
         <<"I am sorry, I do not have enough information to provide an accurate response.">>

\* The stage that ran last
LastVisited(node) == visited # <<>> /\ Last(visited) = node

\* Some assistant message of the conversation carries tool calls
ToolCallsRequested ==
    \E i \in DOMAIN state.messages :
        state.messages[i].type = "ai" /\ state.messages[i].tool_calls # <<>>

\* C12: after Find Order Details the run goes to the tool node, and from
\* there to Generate Response, if and only if the last message, the answer
\* of Find Order Details, carries at least one tool call; otherwise it goes
\* to Generate Response directly; the transaction branch never visits the
\* tool node.
C12_ToolNodeIffToolCalls ==
    /\ (LastVisited(NodeFindOrd) /\ pc # "raised")
       => /\ Last(state.messages).type = "ai"
          /\ pc = NodeTools <=> Last(state.messages).tool_calls # <<>>
          /\ pc = NodeGenerate <=> Last(state.messages).tool_calls = <<>>
    /\ (Visited(NodeFindOrd) /\ ~(pc = "raised" /\ Get(failedAt) = NodeFindOrd))
       => ((Visited(NodeTools) \/ pc = NodeTools) <=> ToolCallsRequested)
    /\ \A i \in DOMAIN visited :
         visited[i] = NodeTools
         => /\ i > 1
            /\ visited[i - 1] = NodeFindOrd
            /\ i < Len(visited) => visited[i + 1] = NodeGenerate
    /\ (LastVisited(NodeTools) /\ pc # "raised") => pc = NodeGenerate
    /\ (Visited(NodeExtractTxn) \/ pc \in {NodeExtractTxn, NodeFindTxn})
       => (~Visited(NodeTools) /\ pc # NodeTools /\ ~ToolCallsRequested)

\* C12 witness: a finished run whose lookup answer carried two tool calls
\* and that went through the tool node
C12_Witness ==
    /\ pc = "END"
    /\ Visited(NodeTools)
    /\ \E i \in DOMAIN state.messages : Len(state.messages[i].tool_calls) = 2

\* C12 second case, reached as well: a finished order run without tool
\* calls that never visited the tool node
C12_DirectRun ==
    /\ pc = "END"
    /\ Visited(NodeFindOrd)
    /\ ~Visited(NodeTools)

\* The conversation Generate Response started with, once it has answered
\* after a tool turn: the stage added three messages to the channel
BeforeGenerate == SubSeq(state.messages, 1, Len(state.messages) - 3)

\* The assistant message of Find Order Details that requested the tools
ToolRequest(msgs) == CHOOSE i \in DOMAIN msgs : msgs[i].tool_calls # <<>>

\* C13: when Generate Response starts with a tool result as the last
\* message, the conversation it hands to the model is the one it started
\* with, with exactly the requesting assistant message and everything after
\* it (its tool results) replaced by one assistant message carrying the tool
\* output, followed by the prompt of the stage; no assistant message with
\* unanswered tool calls is left in it.
C13_CollapseRemovesToolTurn ==
    (LastVisited(NodeGenerate) /\ pc = NodeUpdate /\ Visited(NodeTools))
    => LET input == Last(invocations).input
           before == BeforeGenerate
           k == ToolRequest(before)
       IN /\ Len(input) = k + 1
          /\ SubSeq(input, 1, k - 1) = SubSeq(before, 1, k - 1)
          /\ input[k].type = "ai"
          /\ input[k].tool_calls = <<>>
          /\ input[k].content = Last(before).content
          /\ \A i \in DOMAIN input : input[i].tool_calls = <<>>

\* The collapse step: Generate Response starting with a tool result as the
\* last message
CollapseStep == pc = NodeGenerate /\ Last(state.messages).type = "tool"

\* C14: every step of a stage other than the collapse step of Generate
\* Response only appends to the messages of the state: the messages before the
\* step are a prefix of the messages after it, so nothing is removed,
\* replaced or reordered.
C14_StagesOnlyAppend ==
    [][CollapseStep \/ IsPrefix(state.messages, state'.messages)]_vars

\* C14 witness: the tool node has run, its in-place human message and its
\* tool result follow the messages that were there before
C14_Witness ==
    /\ pc = NodeGenerate
    /\ LastVisited(NodeTools)
    /\ Len(state.messages) = 9
    /\ state.messages[7].tool_calls # <<>>
    /\ state.messages[8].type = "human"
    /\ state.messages[9].type = "tool"

\* The labels the categorisation prompt offers
Categories == { TxtTransaction, TxtDelivery, TxtRefunds, TxtOther }

\* C15: once Determine Ticket Category has run, whatever the model answered,
\* the category of the state is one of Transaction, Delivery, Refunds and
\* Other.
C15_CategoryInClosedSet ==
    IsSet(state.category) => Get(state.category) \in Categories

\* C16: no step of a stage changes the key, the summary or the description
\* the state was created with, and the category is assigned by Determine
\* Ticket Category only.
C16_TicketFieldsFrozen ==
    [][/\ state'.key = state.key
       /\ state'.summary = state.summary
       /\ state'.description = state.description
       /\ state'.category # state.category => pc = NodeCategorize]_vars

\* C16 witness: a finished run: every stage has acted on the state, the
\* ticket fields are those of get_jira_ticket and the category is set
C16_Witness ==
    /\ pc = "END"
    /\ Visited(NodeAssign)
    /\ IsSet(state.category)
    /\ state.summary = Summary
    /\ state.description = Description
    /\ state.key \in TicketKeys

\* C17: whenever a stage is about to run, every field it reads has been
\* set earlier in the run: the category for Assign Ticket Category and the
\* routing after it, the transaction id for Find Transaction Details, the
\* order number for Find Order Details, the state held by the instance (the
\* state of this run, with its usage list) for the tools, a tool result or
\* the response for Generate Response, the response for Update Response,
\* and the usage list and the attachments from the creation of the state on.
C17_ReadsAfterWrites ==
    /\ pc \in {NodeAssign, NodeExtractTxn, NodeExtractOrd} => IsSet(state.category)
    /\ pc = NodeFindTxn => IsSet(state.transaction_id)
    /\ pc = NodeFindOrd => IsSet(state.order_no)
    /\ pc = NodeTools
       => /\ IsSet(selfState)
          /\ Get(selfState).key = state.key
          /\ Get(selfState).usage = state.usage
          /\ IsSet(state.order_no)
          /\ Last(state.messages).tool_calls # <<>>
    /\ pc = NodeGenerate
       => (Last(state.messages).type = "tool" \/ IsSet(state.response))
    /\ pc = NodeUpdate => IsSet(state.response)
    /\ state.usage \in DOMAIN usageHeap
    /\ state.attachments \in AttachmentLists

\* C17 witness: Generate Response is about to read the response that Find
\* Transaction Details set, on a ticket with an attachment that Extract
\* Transaction ID has read
C17_Witness ==
    /\ pc = NodeGenerate
    /\ LastVisited(NodeFindTxn)
    /\ IsSet(state.response)
    /\ IsSet(state.transaction_id)
    /\ Len(state.attachments) = 1

\* The model invocations a stage made
InvocationsOf(node) == { i \in DOMAIN invocations : invocations[i].node = node }

\* The stage has run and its model has answered
Answered(node) ==
    /\ Visited(node)
    /\ ~(pc = "raised" /\ Get(failedAt) = node /\ InvocationsOf(node) = {})

\* One vision invocation over the prompt and the first image only
VisionOnImage(node, prompt) ==
    /\ Cardinality(InvocationsOf(node)) = 1
    /\ \A i \in InvocationsOf(node) :
         /\ invocations[i].model = "vision_llm"
         /\ Len(invocations[i].input) = 1
         /\ invocations[i].input[1].type = "human"
         /\ invocations[i].input[1].content
              = prompt \o <<ImageOf(state.attachments[1].filename)>>

\* One text invocation over the conversation up to the prompt of the stage
TextOnConversation(node, prompt) ==
    /\ Cardinality(InvocationsOf(node)) = 1
    /\ \A i \in InvocationsOf(node) :
         /\ invocations[i].model = "llm"
         /\ Len(invocations[i].input) = 4
         /\ invocations[i].input = SubSeq(state.messages, 1, 4)
         /\ invocations[i].input[1].type = "system"
         /\ invocations[i].input[4].type = "human"
         /\ invocations[i].input[4].content = prompt

\* The rule of the claim for one extraction stage
VisionIfAttached(node, prompt) ==
    Answered(node)
    => IF Len(state.attachments) > 0
       THEN VisionOnImage(node, prompt)
       ELSE TextOnConversation(node, prompt)

\* C18 as stated: in both extraction stages a ticket with an attachment is
\* answered by one vision invocation over the prompt and the image only, a
\* ticket without one by one text invocation over the full conversation.
C18_BothExtractionsUseVision ==
    /\ VisionIfAttached(NodeExtractTxn, ExtractTxnPrompt)
    /\ VisionIfAttached(NodeExtractOrd, ExtractOrdPrompt)

\* C18 amended: Extract Transaction ID follows that rule; Extract Order
\* Number is answered by one text invocation over the full conversation
\* whether or not the ticket has attachments.
C18_OnlyTransactionUsesVision ==
    /\ VisionIfAttached(NodeExtractTxn, ExtractTxnPrompt)
    /\ Answered(NodeExtractOrd) => TextOnConversation(NodeExtractOrd, ExtractOrdPrompt)
    /\ \A n \in {NodeExtractTxn, NodeExtractOrd} : Cardinality(InvocationsOf(n)) <= 1

\* C18 witness: Extract Order Number has answered on a ticket with an
\* attachment, through the text model
C18_Witness ==
    /\ pc = NodeFindOrd
    /\ LastVisited(NodeExtractOrd)
    /\ Len(state.attachments) = 1
    /\ Last(invocations).node = NodeExtractOrd
    /\ Last(invocations).model = "llm"

\* C18 second case, reached as well: Extract Transaction ID has answered
\* on a ticket with an attachment, through the vision model
C18_VisionRun ==
    /\ pc = NodeFindTxn
    /\ Len(state.attachments) = 1
    /\ Last(invocations).model = "vision_llm"

ExtractNodes == { NodeExtractTxn, NodeExtractOrd }

\* The extraction stage has appended the answer of its model: the fifth
\* message of the conversation
ExtractionAnswered ==
    /\ Len(visited) >= 3
    /\ visited[3] \in ExtractNodes
    /\ InvocationsOf(visited[3]) # {}

\* What json.loads makes of the cleaned answer
ParsedAnswer == JsonLoads(CleanJsonString(state.messages[5].content))

\* C19: when the answer of an extraction model is not valid JSON, no
\* exception leaves the extraction stage and the run of the ticket is not
\* aborted.
C19_InvalidJsonRecoverable ==
    (ExtractionAnswered /\ ParsedAnswer.kind = "invalid") => pc # "raised"

\* The key each extraction stage reads from the parsed answer
ExpectedKey(node) == IF node = NodeExtractTxn THEN "transactionid" ELSE "orderno"

\* C20: when the parsed answer of an extraction stage does not have the
\* expected key (transactionid on the transaction branch, orderno on the
\* other), the stage raises and the run stops there: no lookup stage, no
\* Generate Response and no Update Response runs, nothing but the category
\* is written to the ticket, and the transaction id and the order number
\* stay unset.
C20_MissingKeyStopsRun ==
    (/\ ExtractionAnswered
     /\ ParsedAnswer.kind # "invalid"
     /\ ~(ParsedAnswer.kind = "object" /\ ExpectedKey(visited[3]) \in ParsedAnswer.keys))
    => /\ pc = "raised"
       /\ failedAt = Some(visited[3])
       /\ Len(visited) = 3
       /\ \A n \in {NodeFindTxn, NodeFindOrd, NodeTools, NodeGenerate, NodeUpdate} :
            ~Visited(n)
       /\ ~IsSet(state.transaction_id)
       /\ ~IsSet(state.order_no)
       /\ ~IsSet(state.response)
       /\ ~Written("response")

\* C20 witness: Extract Order Number got a JSON object with the key
\* transactionid and raised
C20_Witness ==
    /\ pc = "raised"
    /\ failedAt = Some(NodeExtractOrd)
    /\ ExtractionAnswered
    /\ ParsedAnswer.kind = "object"
    /\ ParsedAnswer.keys = {"transactionid"}

\* C20 second case, reached as well: Extract Transaction ID got an empty
\* JSON object and raised
C20_EmptyObject ==
    /\ pc = "raised"
    /\ failedAt = Some(NodeExtractTxn)
    /\ ExtractionAnswered
    /\ ParsedAnswer.kind = "object"
    /\ ParsedAnswer.keys = {}

\* The transaction query found no record: the response Find Transaction
\* Details left is the not-found message and the fixed sentence
TxnLookupEmpty ==
    /\ Visited(NodeFindTxn)
    /\ IsSet(state.transaction_id)
    /\ \/ /\ LastVisited(NodeFindTxn)
          /\ state.response = Some(TxnNotFound(state) \o TxnSuffix)
       \/ \E i \in DOMAIN invocations :
            /\ invocations[i].node = NodeGenerate
            /\ Last(invocations[i].input).content
                 = GeneratePrompt(TxnNotFound(state) \o TxnSuffix)

\* The order query found no record: the prompt of Find Order Details
\* carries the not-found message as the order details
OrdLookupEmpty ==
    /\ Visited(NodeFindOrd)
    /\ IsSet(state.order_no)
    /\ \E i \in DOMAIN state.messages :
         /\ state.messages[i].type = "human"
         /\ state.messages[i].content = FindOrdPrompt(state, OrdNotFound(state))

\* C21: a query that finds no record does not make the lookup stage raise.
\* Find Transaction Details never raises and leaves the result of the query,
\* the not-found message included, as the response for Generate Response;
\* Find Order Details has the result of the query in its prompt whenever it
\* fails, so only its model call can fail; and a run with an empty lookup
\* that reaches the end has gone through Generate Response and Update
\* Response and has written the response exactly once.
C21_EmptyLookupContinues ==
    /\ LastVisited(NodeFindTxn)
       => /\ pc = NodeGenerate
          /\ ~IsSet(failedAt)
          /\ state.response \in { Some(r \o TxnSuffix) : r \in QueryResults(TxnNotFound(state)) }
    /\ (IsSet(failedAt) /\ Get(failedAt) = NodeFindOrd)
       => /\ Last(state.messages).type = "human"
          /\ Last(state.messages).content
               \in { FindOrdPrompt(state, r) : r \in QueryResults(OrdNotFound(state)) }
    /\ (TxnLookupEmpty \/ OrdLookupEmpty)
       => /\ ~(IsSet(failedAt) /\ Get(failedAt) = NodeFindTxn)
          /\ pc = "END"
             => /\ Visited(NodeGenerate)
                /\ LastVisited(NodeUpdate)
                /\ Len(ResponseWrites) = 1
                /\ ResponseWrites[1].value = Get(state.response)

\* C21 witness: a finished transaction run whose query found no record and
\* whose response was written once
C21_Witness ==
    /\ pc = "END"
    /\ TxnLookupEmpty
    /\ Len(ResponseWrites) = 1

\* C21 second case, reached as well: a finished order run whose query
\* found no record
C21_OrderRun ==
    /\ pc = "END"
    /\ OrdLookupEmpty
    /\ Len(ResponseWrites) = 1

\* The latency add_usage is to record for ai_msg
TotalLatency(ai_msg) ==
    IF ai_msg.latency.isList THEN SumSeq(ai_msg.latency.samples) ELSE ai_msg.latency.value

\* The totals the latencies of the model give
LatencyTotals ==
    { IF l.isList THEN SumSeq(l.samples) ELSE l.value : l \in Latencies }

\* C25: every call of add_usage appends exactly one record to the usage
\* list and changes nothing else. In every step the usage list of the state
\* keeps its earlier records and gains one record per model invocation of the
\* step; outside the tool node that record has the model name and the token
\* counts of the answer the stage appended, and as latency the sum of the
\* samples when the latency is a list and the reported value otherwise; the
\* records of the tool node are those of its vision invocations; the state
\* keeps its usage list, key, summary, description and attachments.
C25_AddUsageAppendsOne ==
    [][LET old == usageHeap[state.usage]
           new == usageHeap'[state'.usage]
       IN /\ state'.usage = state.usage
          /\ DOMAIN usageHeap' = DOMAIN usageHeap
          /\ IsPrefix(old, new)
          /\ Len(new) - Len(old) = Len(invocations') - Len(invocations)
          /\ pc # NodeTools => Len(new) <= Len(old) + 1
          /\ (pc # NodeTools /\ Len(new) = Len(old) + 1)
             => LET ai_msg == Last(state'.messages)
                IN /\ ai_msg.type = "ai"
                   /\ Last(new) = [model_name |-> ai_msg.model_name,
                                   input_tokens |-> ai_msg.input_tokens,
                                   output_tokens |-> ai_msg.output_tokens,
                                   latency |-> TotalLatency(ai_msg)]
          /\ \A i \in (Len(old) + 1)..Len(new) :
               /\ new[i].latency \in LatencyTotals
               /\ new[i].model_name = invocations'[i].model
          /\ state'.key = state.key
          /\ state'.summary = state.summary
          /\ state'.description = state.description
          /\ state'.attachments = state.attachments]_vars

\* C25 witness: a finished run whose usage list has a record of a latency
\* reported as a list (70 + 60) and one of a latency reported as a number
C25_Witness ==
    /\ pc = "END"
    /\ Len(Usage) >= 4
    /\ \E i, j \in DOMAIN Usage : Usage[i].latency = 130 /\ Usage[j].latency = 120

\* The tickets in process: the run that is going on and the ones put aside
Tickets == <<Current>> \o suspended

UsageOf(r) == usageHeap[r.state.usage]

\* The usage list of a ticket has one record per model invocation made
\* for that ticket, in order, and the instance of the ticket holds its state
TicketOwnsUsage(r) ==
    /\ Len(UsageOf(r)) = Len(r.invocations)
    /\ \A i \in DOMAIN r.invocations : UsageOf(r)[i].model_name = r.invocations[i].model
    /\ IsSet(r.selfState)
       => (Get(r.selfState).key = r.state.key /\ Get(r.selfState).usage = r.state.usage)

\* A step that hands over from one ticket to the other and changes neither
SwitchStep ==
    /\ suspended # <<>>
    /\ suspended' = <<Current>>
    /\ Current' = suspended[1]
    /\ usageHeap' = usageHeap

\* A stage of the ticket that is going on leaves the other tickets alone
StageStep ==
    /\ suspended' = suspended
    /\ \A i \in DOMAIN suspended : UsageOf(suspended[i])' = UsageOf(suspended[i])

\* C26: with the stages of several tickets interleaved, the usage list of
\* each ticket holds exactly the records of the model invocations made for
\* that ticket, the vision invocations inside the tool node included, and
\* none of another ticket; no stage of one ticket changes the conversation,
\* the fields or the usage list of another.
C26_TicketsIsolated ==
    /\ [](/\ \A i \in DOMAIN Tickets : TicketOwnsUsage(Tickets[i])
          /\ \A i, j \in DOMAIN Tickets :
               i # j => /\ Tickets[i].state.key # Tickets[j].state.key
                        /\ Tickets[i].state.usage # Tickets[j].state.usage)
    /\ [][SwitchStep \/ StageStep]_vars

\* C26 witness: the tool node of one ticket has invoked the vision model
\* while the other ticket, categorised and with invocations of its own, is
\* waiting at its tool node
C26_Witness ==
    /\ suspended # <<>>
    /\ pc = NodeGenerate
    /\ LastVisited(NodeTools)
    /\ Last(invocations).node = NodeTools
    /\ Len(Usage) = 4
    /\ suspended[1].pc = NodeTools
    /\ IsSet(suspended[1].selfState)
    /\ Len(UsageOf(suspended[1])) = 3

\* Determine Ticket Category has been run a second time and has answered
Recategorized ==
    /\ suspended # <<>>
    /\ pc = NodeAssign
    /\ suspended[1].state.summary = state.summary
    /\ suspended[1].state.description = state.description

\* C27 as stated: with a deterministic model stub, running Determine Ticket
\* Category again on a state with the same summary and description yields the
\* category of the first run.
C27_SameTicketSameCategory ==
    Recategorized => state.category = suspended[1].state.category

\* C27 amended: the second run yields the category of the first when it
\* starts from a state as get_jira_ticket builds it for the same ticket,
\* whose conversation is the system prompt alone, as the first run did.
C27_FreshStateSameCategory ==
    (Recategorized /\ visited = <<NodeCategorize>>)
    => /\ state.category = suspended[1].state.category
       /\ IsSet(state.category)
       /\ Len(suspended[1].visited) = 1

\* C27 witness: the ticket was processed again from a fresh state and the
\* stub, which answered ' transaction' with whitespace around it, gave the
\* category transaction both times
C27_Witness ==
    /\ Recategorized
    /\ visited = <<NodeCategorize>>
    /\ Len(state.messages) = 3
    /\ state.category = Some(TxtTransactionLower)
    /\ suspended[1].state.category = Some(TxtTransactionLower)

\* C27 second case, reached as well: the stage was run again on the state
\* it had returned, with the first prompt and answer in the conversation
C27_SameStateRun ==
    /\ Recategorized
    /\ visited = <<NodeCategorize, NodeCategorize>>
    /\ Len(state.messages) = 5
    /\ state.category # suspended[1].state.category

(***************************************************************************)
(* Utility.clean_json_string: properties                                   *)
(***************************************************************************)
\* A JSON object wrapped in a json-tagged fenced block
Fenced(obj, b1, b2) == <<Fence, "json", "\n">> \o b1 \o obj \o b2 \o <<Fence>>

FencedInputs == { Fenced(obj, b1, b2) : obj \in JsonObjects, b1 \in Blanks, b2 \in Blanks }

\* The object an input wraps
Wrapped(s) == CHOOSE obj \in JsonObjects : \E b1 \in Blanks, b2 \in Blanks : s = Fenced(obj, b1, b2)

HasFence(obj) == \E i \in DOMAIN obj : obj[i] = Fence

\* C28: clean_json_string applied to a JSON object wrapped in a json-tagged
\* fenced block returns the same string as applied to the bare JSON object,
\* which is the object itself, trimmed.
C28_FencedSameAsBare ==
    (IsSet(cleaned) /\ json_string \in FencedInputs) =>
        /\ Get(cleaned) = CleanJsonString(Wrapped(json_string))
        /\ Get(cleaned) = Strip(Wrapped(json_string))

\* The same, for the objects that hold no three backticks: it holds
C28_FencedSameAsBareNoBackticks ==
    (IsSet(cleaned) /\ json_string \in FencedInputs /\ ~HasFence(Wrapped(json_string))) =>
        /\ Get(cleaned) = CleanJsonString(Wrapped(json_string))
        /\ Get(cleaned) = Strip(Wrapped(json_string))

\* A complete json-tagged fence: the tag, a newline, and a closing fence later
CompleteJsonFence(s) ==
    \E i \in 1..Len(s), j \in 1..Len(s) :
        /\ i + 3 <= j
        /\ SubSeq(s, i, i + 2) = <<Fence, "json", "\n">>
        /\ s[j] = Fence

\* C29: clean_json_string returns for every input string; when the text has no
\* complete json-tagged fence (closing fence missing, no newline after the
\* tag, fence untagged) the result is the whole input, trimmed.
C29_MalformedFenceFallsThrough ==
    /\ ~IsSet(cleaned) => ENABLED CleanJsonStringCall
    /\ (IsSet(cleaned) /\ ~CompleteJsonFence(json_string)) =>
           Get(cleaned) = Strip(json_string)

\* A json-tagged opening whose closing fence is missing
C29_Witness ==
    /\ json_string = <<Fence, "json", "\n", TokOrd, "\n">>
    /\ cleaned = Some(<<Fence, "json", "\n", TokOrd>>)

\* The tag without its newline, closed
C29_NoNewlineRun ==
    /\ json_string = <<Fence, "json", " ", TokOrd, Fence, "\n">>
    /\ cleaned = Some(<<Fence, "json", " ", TokOrd, Fence>>)

\* An untagged fence, closed
C29_UntaggedRun ==
    /\ json_string = <<Fence, "\n", TokOrd, "\n", Fence>>
    /\ cleaned = Some(json_string)

\* C30: generate_response_for_ticket returns to its caller the final
\* response, the usage log and the conversation of the final state of the run.
C30_EntryPointReturnsFinalState ==
    IsSet(returned) =>
        /\ Get(returned).type = "dict"
        /\ Get(returned).response = state.response
        /\ Get(returned).usage = Usage
        /\ Get(returned).messages = state.messages

\* What the code does: the call returns None after a run that reached END
C30_EntryPointReturnsNone ==
    IsSet(returned) => (pc = "END" /\ Get(returned) = PyNone)

\* No node of the graph was entered twice in the run
NoNodeTwice == \A i, j \in DOMAIN visited : visited[i] = visited[j] => i = j

\* C31: every run of the graph terminates, at END or with a stage that
\* raised, and no stage is executed more than once in it.
C31_RunTerminates == []NoNodeTwice /\ <>(pc \in {"END", "raised"})

\* C31 witness: a run over the order branch that went through the tool node
\* and ended, every node entered once.
C31_Witness ==
    /\ pc = "END"
    /\ NoNodeTwice
    /\ visited = <<NodeCategorize, NodeAssign, NodeExtractOrd, NodeFindOrd,
                   NodeTools, NodeGenerate, NodeUpdate>>

\* The tool node has just run and handed its results to Generate Response
AfterToolNode == pc = NodeGenerate /\ LastVisited(NodeTools)

\* After the assistant message that requested the tools come its tool
\* results, one per request, and nothing else
OnlyToolResultsFollow ==
    LET k == ToolRequest(state.messages) IN
    /\ Len(state.messages) = k + Len(state.messages[k].tool_calls)
    /\ \A i \in (k + 1)..Len(state.messages) : state.messages[i].type = "tool"

\* C37: a tool run by the tool node changes the conversation through its
\* tool-result message only: between the assistant message that carries the
\* tool requests and the tool results that answer them no other message is
\* put into the conversation.
C37_ToolsAddOnlyResults == AfterToolNode => OnlyToolResultsFollow

\* The same for the turns that request find_refund_status only: it holds
C37_RefundToolsAddOnlyResults ==
    (AfterToolNode
     /\ \A j \in DOMAIN state.messages[ToolRequest(state.messages)].tool_calls :
          state.messages[ToolRequest(state.messages)].tool_calls[j].name = "find_refund_status")
    => OnlyToolResultsFollow

(***************************************************************************)
(* MCP agent: data                                                         *)
(***************************************************************************)
\* Bound of the model: the number of calls of client.converse after which
\* no further one is made
MaxModelCalls == 2

\* Content blocks of the Converse API
TextBlock(t) == [kind |-> "text", text |-> t, toolUseId |-> "", name |-> "", status |-> ""]
ImageBlock == [kind |-> "image", text |-> <<>>, toolUseId |-> "", name |-> "", status |-> ""]
ToolUse(id, name) ==
    [kind |-> "toolUse", text |-> <<>>, toolUseId |-> id, name |-> name, status |-> ""]
\* {'toolResult': {toolUseId, content: [{text}], status}}
ToolResult(id, text, status) ==
    [kind |-> "toolResult", text |-> text, toolUseId |-> id, name |-> "", status |-> status]

\* A message of BedrockConverseAgent.messages. stop and src are history:
\* the stop reason the message came with, and the statement that appended it.
AMsg(role, content, stop, src) ==
    [role |-> role, content |-> content, stop |-> stop, src |-> src]

OpenTag == <<"<response>">>
CloseTag == <<"</response>">>

\* pat occurs in text at position i
OccursAt(text, pat, i) ==
    /\ i >= 1
    /\ i + Len(pat) - 1 <= Len(text)
    /\ \A k \in 1..Len(pat) : text[i + k - 1] = pat[k]

\* Positions j at or after `from` where the closing delimiter occurs
ClosingsFrom(text, close, from) ==
    { j \in from..(Len(text) + 1) : OccursAt(text, close, j) }

\* Mutant: the group of the pattern made greedy, so that it runs to the last
\* closing delimiter
ExtractBetweenGreedy(text, open, close) ==
    LET starts == { i \in 1..(Len(text) + 1) :
                      /\ OccursAt(text, open, i)
                      /\ ClosingsFrom(text, close, i + Len(open)) # {} }
    IN IF starts = {} THEN text
       ELSE LET i == Max(starts)
                j == Max(ClosingsFrom(text, close, i + Len(open)))
            IN SubSeq(text, i + Len(open), j - 1)

\* re.search("(?s).*" + escape(open) + "(.*?)" + escape(close), text): the
\* greedy prefix takes the last opening delimiter that a closing one follows,
\* the lazy group stops at the first closing delimiter after it; group(1),
\* or the text itself when there is no match.
ExtractBetween(text, open, close) ==
    LET starts == { i \in 1..(Len(text) + 1) :
                      /\ OccursAt(text, open, i)
                      /\ ClosingsFrom(text, close, i + Len(open)) # {} }
    IN IF starts = {} THEN text
       ELSE LET i == Max(starts)
                j == Min(ClosingsFrom(text, close, i + Len(open)))
            IN SubSeq(text, i + Len(open), j - 1)

\* content[0].get('text', ''), '' also when content is empty (IndexError)
FirstText(content) ==
    IF content = <<>> THEN <<>>
    ELSE IF content[1].kind = "text" THEN content[1].text ELSE <<>>

\* The value _handle_response returns on end_turn / stop_sequence
ExtractAnswer(content, outputTags) ==
    LET text == FirstText(content) IN
    IF Len(outputTags) = 2
    THEN ExtractBetween(text, outputTags[1], outputTags[2])
    ELSE text

(***************************************************************************)
(* MCP agent: the tool registry (UtilityHelper)                            *)
(***************************************************************************)
Hyphen == "-"
Underscore == "_"

\* Tool names as sequences of name parts and separators
NameGetWeatherHyphen == <<"get", Hyphen, "weather">>
NameGetWeather == <<"get", Underscore, "weather">>
NameSearch == <<"search">>
NameUnknown == <<"no", Underscore, "such", Underscore, "tool">>

\* name.replace("-", "_")
CorrectName(name) ==
    [i \in 1..Len(name) |-> IF name[i] = Hyphen THEN Underscore ELSE name[i]]

\* The keys _tools can have in the model
RegistryKeys == { NameGetWeather, NameSearch }

\* The registrations of the model: (name, func, description, input_schema);
\* the schema is given by the 'type' its 'json' member has ("absent" when it
\* has none, "nojson" when the schema has no 'json' member).
ToolDefs ==
    { [name |-> NameGetWeatherHyphen, func |-> "call_tool", description |-> "weather",
       input_schema |-> "absent"],
      [name |-> NameGetWeather, func |-> "call_tool_2", description |-> "weather v2",
       input_schema |-> "object"],
      [name |-> NameSearch, func |-> "call_tool", description |-> "search",
       input_schema |-> "nojson"] }

EmptyRegistry == [k \in RegistryKeys |-> Unset]

\* Mutant: a registration under a key that is taken is ignored
RegisterToolInKeepingFirst(reg, name, func, description, input_schema) ==
    IF IsSet(reg[CorrectName(name)])
    THEN reg
    ELSE [reg EXCEPT ![CorrectName(name)] =
            Some([function |-> func, description |-> description,
                  input_schema |-> input_schema, original_name |-> name])]

\* register_tool: the entry under the corrected name is replaced
RegisterToolIn(reg, name, func, description, input_schema) ==
    [reg EXCEPT ![CorrectName(name)] =
        Some([function |-> func, description |-> description,
              input_schema |-> input_schema, original_name |-> name])]

Registered(reg, name) == name \in DOMAIN reg /\ IsSet(reg[name])

\* get_tools writes 'type': 'object' into the 'json' member of the stored
\* schema (the copy it takes is shallow) when the member has no 'type'
AfterGetTools(reg) ==
    [k \in DOMAIN reg |->
        IF IsSet(reg[k]) /\ Get(reg[k]).input_schema = "absent"
        THEN Some([Get(reg[k]) EXCEPT !.input_schema = "object"])
        ELSE reg[k]]

\* get_tools: one toolSpec per key of _tools, in the order of the keys
\* (RegistryOrder); inputSchema is the 'type' of the 'json' member of the
\* schema, set to 'object' when the member has none
RegistryOrder == <<NameGetWeather, NameSearch>>

GetTools(reg) ==
    LET keys == SelectSeq(RegistryOrder, LAMBDA k : Registered(reg, k))
    IN [i \in 1..Len(keys) |->
          [name |-> keys[i],
           description |-> Get(reg[keys[i]]).description,
           inputSchema |-> IF Get(reg[keys[i]]).input_schema = "absent"
                           THEN "object"
                           ELSE Get(reg[keys[i]]).input_schema]]

\* What is in flight between the frames of the loop: a returned value
\* (a text or None) or an exception
Value(t) == [kind |-> "value", text |-> t, errKind |-> "", reason |-> "", wraps |-> 0]
NoneValue == [kind |-> "none", text |-> <<>>, errKind |-> "", reason |-> "", wraps |-> 0]
Error(errKind, reason) ==
    [kind |-> "error", text |-> <<>>, errKind |-> errKind, reason |-> reason, wraps |-> 0]
\* raise ValueError(f"Failed to execute tool: {e}")
WrapFailed(c) == [c EXCEPT !.wraps = @ + 1]

\* One notification to tool_usage_callback: an observer that is "faulty"
\* may raise, an "ok" one returns
CallbackRaises(cb) == IF cb = "faulty" THEN {TRUE, FALSE} ELSE {FALSE}

Event(event, name, raised) == [event |-> event, tool_name |-> name, raised |-> raised]

\* What the tool function does when awaited: returns the dict of
\* MCPClient.call_tool, returns a bare value (legacy format), or raises
ToolBehaviours == { "dict", "legacy", "raise" }

\* An outcome of execute_tool
Outcome(raised, exc, result, ran, behaviour, events) ==
    [raised |-> raised, exc |-> exc, result |-> result, ran |-> ran,
     behaviour |-> behaviour, events |-> events]

NoResult == ToolResult("", <<>>, "")

\* The except branch of execute_tool: tool_error is notified when a callback
\* is set (an exception of the callback leaves execute_tool), then the
\* error result is returned
ExecuteToolExcept(id, original, cb, ran, behaviour, events) ==
    IF cb = "unset"
    THEN { Outcome(FALSE, NoneValue, ToolResult(id, <<"Error executing tool">>, "error"),
                   ran, behaviour, events) }
    ELSE { IF r
           THEN Outcome(TRUE, Error("callback", "tool_error"), NoResult, ran, behaviour,
                        Append(events, Event("tool_error", original, TRUE)))
           ELSE Outcome(FALSE, NoneValue,
                        ToolResult(id, <<"Error executing tool">>, "error"), ran, behaviour,
                        Append(events, Event("tool_error", original, FALSE)))
           : r \in CallbackRaises(cb) }

\* Mutant: an unregistered name answered with an error result
ExecuteToolUnknownAsError(payload, reg, cb) ==
    { Outcome(FALSE, NoneValue,
              ToolResult(payload.toolUseId, <<"Error executing tool">>, "error"),
              FALSE, "", <<>>) }

\* execute_tool(payload): the set of its outcomes
ExecuteTool(payload, reg, cb) ==
    LET id == payload.toolUseId IN
    IF ~Registered(reg, payload.name)
    THEN { Outcome(TRUE, Error("unknown_tool", "Unknown tool"), NoResult, FALSE, "", <<>>) }
    ELSE
      LET original == Get(reg[payload.name]).original_name
          \* after tool_start was delivered (or without a callback)
          Run(events) ==
            UNION { IF b = "raise"
                    THEN ExecuteToolExcept(id, original, cb, TRUE, b, events)
                    ELSE IF b = "legacy" \/ cb = "unset"
                    THEN { Outcome(FALSE, NoneValue, ToolResult(id, <<"result">>, "success"),
                                   TRUE, b, events) }
                    ELSE UNION {
                           IF r
                           THEN ExecuteToolExcept(id, original, cb, TRUE, b,
                                  Append(events, Event("tool_complete", original, TRUE)))
                           ELSE { Outcome(FALSE, NoneValue,
                                          ToolResult(id, <<"result">>, "success"), TRUE, b,
                                          Append(events, Event("tool_complete", original, FALSE))) }
                           : r \in CallbackRaises(cb) }
                    : b \in ToolBehaviours }
      IN IF cb = "unset"
         THEN Run(<<>>)
         ELSE UNION { IF r
                      THEN ExecuteToolExcept(id, original, cb, FALSE, "",
                                             <<Event("tool_start", original, TRUE)>>)
                      ELSE Run(<<Event("tool_start", original, FALSE)>>)
                      : r \in CallbackRaises(cb) }

(***************************************************************************)
(* MCP agent: the reasoning loop (BedrockConverseAgent)                    *)
(***************************************************************************)
ImageUrl == "https://example.com/cat.png"

\* The prompts of the model: one without and one with an image URL
PromptText == <<"What is the weather?">>
PromptWithUrl == <<"Describe", ImageUrl>>
Prompts == { PromptText, PromptWithUrl }

\* _is_image_url: whether some part of the prompt is an image URL
IsImageUrl(prompt) == \E i \in 1..Len(prompt) : prompt[i] = ImageUrl

\* The prompt without the URL
WithoutUrl(prompt) == SelectSeq(prompt, LAMBDA w : w # ImageUrl)

ImageTerms == { "image", "picture", "photo", "Describe" }

\* text_prompt of invoke_with_prompt
TextPrompt(prompt) ==
    LET t == WithoutUrl(prompt) IN
    IF t = <<>> THEN <<"What's in this image?">>
    ELSE IF \E i \in 1..Len(t) : t[i] \in ImageTerms THEN t
    ELSE <<"About this image:">> \o t

ContinuePrompt == <<"Please continue.">>

StopNatural == { "end_turn", "stop_sequence" }
StopKnown == StopNatural \cup { "tool_use", "max_tokens" }

\* The texts the stubbed model answers with
AnswerPlain == <<"It", "is", "sunny">>
AnswerTagged == <<"thinking", "<response>", "sunny", "</response>", "bye">>
AnswerNested ==
    <<"<response>", "a", "<response>", "b", "</response>", "c", "</response>">>
AnswerUnordered == <<"</response>", "x", "<response>">>

Response(stopReason, content) == [stopReason |-> stopReason, content |-> content]

\* What client.converse returns in the model
Responses ==
    { Response("end_turn", <<TextBlock(AnswerTagged)>>),
      Response("stop_sequence", <<TextBlock(AnswerNested)>>),
      Response("end_turn", <<TextBlock(AnswerUnordered)>>),
      Response("end_turn", <<>>),
      Response("end_turn", <<ToolUse("tu1", NameSearch), TextBlock(AnswerPlain)>>),
      Response("tool_use", <<ToolUse("tu1", NameGetWeather)>>),
      Response("tool_use", <<TextBlock(AnswerPlain), ToolUse("tu1", NameGetWeather),
                             ToolUse("tu2", NameSearch)>>),
      Response("tool_use", <<ToolUse("tu1", NameSearch), ToolUse("tu2", NameUnknown)>>),
      Response("tool_use", <<TextBlock(AnswerPlain)>>),
      Response("max_tokens", <<TextBlock(AnswerPlain)>>),
      Response("content_filtered", <<TextBlock(AnswerPlain)>>) }

HasImage(message) ==
    \E i \in 1..Len(message.content) : message.content[i].kind = "image"

\* The first truthy text of the content of a message, if any
FirstTextOf(content) ==
    LET idx == { i \in 1..Len(content) :
                   content[i].kind = "text" /\ content[i].text # <<>> }
    IN IF idx = {} THEN Unset ELSE Some(content[Min(idx)].text)

Attempt == IF IsSet(turn) THEN Get(turn).attempt ELSE 0

ModelCall(stop, ok) == [stop |-> stop, ok |-> ok, attempt |-> Attempt]

\* Mutant: the value of the continuation handed back by the frame that hit
\* the token limit
ReturnThroughAll(frame, c) == c

\* Mutant: the tool-use branch without its return statement
ReturnThroughNone(frame, c) == NoneValue

\* What the frame of _handle_response returns when the call it awaited has
\* returned c: the tool-use branch returns it, the max_tokens branch has no
\* return statement
ReturnThrough(frame, c) == IF frame = "hr_max" THEN NoneValue ELSE c

\* No ticket workflow runs beside the agent
FlowIdle ==
    /\ pc = "idle"
    /\ state = <<>>
    /\ usageHeap = <<>>
    /\ selfState = Unset
    /\ jiraWrites = <<>>
    /\ invocations = <<>>
    /\ visited = <<>>
    /\ failedAt = Unset
    /\ nextId = 1
    /\ suspended = <<>>
    /\ UtilIdle
    /\ returned = Unset

\* A BedrockConverseAgent after construction, with a fresh UtilityHelper
InitAgent ==
    /\ FlowIdle
    /\ apc = "new"
    /\ amessages = <<>>
    /\ tools = EmptyRegistry
    /\ callback = "unset"
    /\ tags = <<>>
    /\ stack = <<>>
    /\ pending = <<>>
    /\ blockIdx = 1
    /\ toolResponse = <<>>
    /\ carry = <<>>
    /\ turn = <<>>
    /\ modelCalls = <<>>
    /\ toolCalls = <<>>
    /\ notified = <<>>
    /\ apiCalls = 0

\* The configurations the agent is set up with before its first turn:
\* the observer, the output tags and the tools registered, in order
Setups ==
    { [callback |-> "unset", tags |-> <<>>,
       defs |-> <<NameGetWeatherHyphen, NameSearch>>],
      [callback |-> "unset", tags |-> <<OpenTag, CloseTag>>,
       defs |-> <<NameGetWeatherHyphen, NameSearch>>],
      [callback |-> "ok", tags |-> <<OpenTag>>,
       defs |-> <<NameGetWeatherHyphen, NameGetWeather>>],
      [callback |-> "faulty", tags |-> <<OpenTag, CloseTag>>,
       defs |-> <<NameSearch, NameGetWeatherHyphen>>] }

ToolDef(name) == CHOOSE d \in ToolDefs : d.name = name

RECURSIVE RegisterAll(_, _)
RegisterAll(reg, names) ==
    IF names = <<>> THEN reg
    ELSE LET d == ToolDef(Head(names))
         IN RegisterAll(RegisterToolIn(reg, d.name, d.func, d.description, d.input_schema),
                        Tail(names))

\* Set-up of the agent as in initialize_agent of gradio_app.py: tools registered, the
\* observer registered or not, response_output_tags assigned
Setup ==
    /\ apc = "new"
    /\ \E c \in Setups :
         /\ callback' = c.callback
         /\ tags' = c.tags
         /\ tools' = RegisterAll(tools, c.defs)
    /\ apc' = "idle"
    /\ UNCHANGED <<amessages, stack, pending, blockIdx, toolResponse, carry, turn,
                   modelCalls, toolCalls, notified, apiCalls>>
    /\ UNCHANGED flowVars

\* start: the index the first message of the turn gets
NewTurn(entry, prompt) ==
    Some([entry |-> entry, prompt |-> prompt, attempt |-> 1, start |-> Len(amessages) + 1])

\* self.messages.append({"role": "user", "content": content}) of invoke
UserMsg(content, src) == AMsg("user", content, "", src)

\* A top-level call up to the append of the user message of its first
\* invoke: invoke_with_prompt(prompt), which for a prompt without an image
\* URL is invoke([{'text': prompt}])
StartTurn ==
    /\ apc = "idle"
    /\ apiCalls < MaxModelCalls
    /\ \E prompt \in Prompts :
            /\ turn' = NewTurn(IF IsImageUrl(prompt) THEN "invoke_with_prompt" ELSE "invoke",
                               prompt)
            /\ IF IsImageUrl(prompt)
               THEN \/ \* the image was fetched: multimodal content, inside try
                       /\ amessages' = Append(amessages,
                            UserMsg(<<TextBlock(TextPrompt(prompt)), ImageBlock>>, "prompt"))
                       /\ stack' = <<"iwp_try">>
                    \/ \* _fetch_image_from_url raised: text-only fallback
                       /\ amessages' = Append(amessages,
                            UserMsg(<<TextBlock(prompt)>>, "fallback"))
                       /\ stack' = <<>>
               ELSE /\ amessages' = Append(amessages,
                            UserMsg(<<TextBlock(prompt)>>, "prompt"))
                    /\ stack' = <<>>
    /\ apc' = "converse"
    /\ carry' = <<>>
    /\ modelCalls' = <<>>
    /\ toolCalls' = <<>>
    /\ notified' = <<>>
    /\ pending' = <<>>
    /\ blockIdx' = 1
    /\ toolResponse' = <<>>
    /\ UNCHANGED <<tools, callback, tags, apiCalls>>
    /\ UNCHANGED flowVars

\* _handle_response(response), up to its first await, for the conversation
\* msgs and the record calls of the model calls
HandleResponse(msgs, r, calls) ==
    LET appended == Append(msgs, AMsg("assistant", r.content, r.stopReason, "assistant")) IN
    /\ modelCalls' = Append(calls, ModelCall(r.stopReason, TRUE))
    /\ apiCalls' = apiCalls + Len(calls) + 1 - Len(modelCalls)
    /\ IF r.stopReason \in StopNatural
       THEN /\ amessages' = appended
            /\ carry' = Some(Value(ExtractAnswer(r.content, tags)))
            /\ apc' = "return"
            /\ UNCHANGED <<stack, pending, blockIdx, toolResponse>>
       ELSE IF r.stopReason = "tool_use"
       THEN /\ amessages' = appended
            /\ pending' = r.content
            /\ blockIdx' = 1
            /\ toolResponse' = <<>>
            /\ apc' = "tools"
            /\ UNCHANGED <<stack, carry>>
       ELSE IF r.stopReason = "max_tokens"
       THEN \* invoke_with_prompt('Please continue.') -> invoke
            /\ amessages' = Append(appended,
                                   UserMsg(<<TextBlock(ContinuePrompt)>>, "continue"))
            /\ stack' = Append(stack, "hr_max")
            /\ apc' = "converse"
            /\ UNCHANGED <<carry, pending, blockIdx, toolResponse>>
       ELSE /\ amessages' = appended
            /\ carry' = Some(Error("unknown_stop", r.stopReason))
            /\ apc' = "raise"
            /\ UNCHANGED <<stack, pending, blockIdx, toolResponse>>

\* _get_converse_response raising
ConverseRaises(msgs, calls, code) ==
    /\ amessages' = msgs
    /\ modelCalls' = calls
    /\ apiCalls' = apiCalls + Len(calls) - Len(modelCalls)
    /\ carry' = Some(Error("api", code))
    /\ apc' = "raise"
    /\ UNCHANGED <<stack, pending, blockIdx, toolResponse>>

\* _get_converse_response and the _handle_response that follows it
Converse ==
    /\ apc = "converse"
    /\ apiCalls < MaxModelCalls
    /\ tools' = AfterGetTools(tools)
    /\ \/ \E r \in Responses : HandleResponse(amessages, r, modelCalls)
       \/ ConverseRaises(amessages, Append(modelCalls, ModelCall("ThrottlingException", FALSE)),
                         "ThrottlingException")
       \/ \* ValidationException 'Invalid image content'
          /\ HasImage(Last(amessages))
          /\ LET popped == SubSeq(amessages, 1, Len(amessages) - 1)
                 text == FirstTextOf(Last(amessages).content)
                 first == Append(modelCalls, ModelCall("ValidationException", FALSE))
             IN IF IsSet(text)
                THEN LET retry == Append(popped, UserMsg(<<TextBlock(Get(text))>>, "retry"))
                     IN \/ \E r \in Responses : HandleResponse(retry, r, first)
                        \/ ConverseRaises(retry,
                             Append(first, ModelCall("ThrottlingException", FALSE)),
                             "ThrottlingException")
                ELSE ConverseRaises(popped, first, "ValidationException")
    /\ UNCHANGED <<callback, tags, turn, toolCalls, notified>>
    /\ UNCHANGED flowVars

\* Mutant: the loop left after the first tool-use block
RemainingToolUsesFirstOnly ==
    { i \in blockIdx..Len(pending) :
        /\ pending[i].kind = "toolUse"
        /\ \A j \in 1..(i - 1) : pending[j].kind # "toolUse" }

\* The tool-use blocks of the output message not yet dispatched
RemainingToolUses == { i \in blockIdx..Len(pending) : pending[i].kind = "toolUse" }

ToolCall(block, o) ==
    [toolUseId |-> block.toolUseId, name |-> block.name, msg |-> Len(amessages),
     calls |-> Len(modelCalls), ran |-> o.ran, behaviour |-> o.behaviour, raised |-> o.raised,
     result |-> o.result, attempt |-> Attempt]

\* One pass of the for loop of the tool_use branch that finds a toolUse
\* block: execute_tool on it, its result appended to tool_response; an
\* exception goes to the except clause of the branch
ExecuteNextTool ==
    /\ apc = "tools"
    /\ RemainingToolUses # {}
    /\ LET i == Min(RemainingToolUses)
           payload == pending[i]
       IN \E o \in ExecuteTool(payload, tools, callback) :
            /\ toolCalls' = Append(toolCalls, ToolCall(payload, o))
            /\ notified' = notified \o o.events
            /\ IF o.raised
               THEN /\ carry' = Some(WrapFailed(o.exc))
                    /\ apc' = "raise"
                    /\ UNCHANGED <<blockIdx, toolResponse>>
               ELSE /\ toolResponse' = Append(toolResponse, o.result)
                    /\ blockIdx' = i + 1
                    /\ UNCHANGED <<apc, carry>>
    /\ UNCHANGED <<amessages, tools, callback, tags, stack, pending, turn, modelCalls,
                   apiCalls>>
    /\ UNCHANGED flowVars

\* The loop is through: invoke(tool_response) up to the append of its
\* user message
InvokeToolResponse ==
    /\ apc = "tools"
    /\ RemainingToolUses = {}
    /\ amessages' = Append(amessages, UserMsg(toolResponse, "tool_results"))
    /\ stack' = Append(stack, "hr_tool")
    /\ apc' = "converse"
    /\ UNCHANGED <<tools, callback, tags, pending, blockIdx, toolResponse, carry, turn,
                   modelCalls, toolCalls, notified, apiCalls>>
    /\ UNCHANGED flowVars

\* A call returns to the frame that awaits it, or to the top-level caller
ReturnStep ==
    /\ apc = "return"
    /\ IF stack = <<>>
       THEN /\ apc' = "idle"
            /\ UNCHANGED <<stack, carry>>
       ELSE /\ carry' = Some(ReturnThrough(Last(stack), Get(carry)))
            /\ stack' = SubSeq(stack, 1, Len(stack) - 1)
            /\ UNCHANGED apc
    /\ UNCHANGED <<amessages, tools, callback, tags, pending, blockIdx, toolResponse, turn,
                   modelCalls, toolCalls, notified, apiCalls>>
    /\ UNCHANGED flowVars

\* An exception reaches the frame that awaits the call, or the top-level
\* caller: the tool-use branch wraps it, the max_tokens branch lets it
\* pass, the try of invoke_with_prompt falls back to the text-only prompt
RaiseStep ==
    /\ apc = "raise"
    /\ IF stack = <<>>
       THEN /\ apc' = "idle"
            /\ UNCHANGED <<stack, carry, amessages, turn>>
       ELSE /\ stack' = SubSeq(stack, 1, Len(stack) - 1)
            /\ IF Last(stack) = "hr_tool"
               THEN /\ carry' = Some(WrapFailed(Get(carry)))
                    /\ UNCHANGED <<apc, amessages, turn>>
               ELSE IF Last(stack) = "hr_max"
               THEN UNCHANGED <<apc, carry, amessages, turn>>
               ELSE /\ amessages' = Append(amessages,
                           UserMsg(<<TextBlock(Get(turn).prompt)>>, "fallback"))
                    /\ turn' = Some([Get(turn) EXCEPT !.attempt = 2])
                    /\ carry' = <<>>
                    /\ apc' = "converse"
    /\ UNCHANGED <<tools, callback, tags, pending, blockIdx, toolResponse,
                   modelCalls, toolCalls, notified, apiCalls>>
    /\ UNCHANGED flowVars

NextAgent ==
    \/ Setup
    \/ StartTurn
    \/ Converse
    \/ ExecuteNextTool
    \/ InvokeToolResponse
    \/ ReturnStep
    \/ RaiseStep

SpecAgent == InitAgent /\ [][NextAgent]_vars

(***************************************************************************)
(* MCP agent: invoke called with content that holds an image               *)
(***************************************************************************)
\* Content lists a caller hands to invoke: an image alone, an image after
\* an empty text, a text and an image
InvokeContents ==
    { <<ImageBlock>>,
      <<TextBlock(<<>>), ImageBlock>>,
      <<TextBlock(<<"Describe">>), ImageBlock>> }

\* A top-level call invoke(content) up to the append of its user message
StartInvoke ==
    /\ apc = "idle"
    /\ apiCalls < MaxModelCalls
    /\ \E content \in InvokeContents :
         /\ turn' = NewTurn("invoke", <<>>)
         /\ amessages' = Append(amessages, UserMsg(content, "prompt"))
    /\ stack' = <<>>
    /\ apc' = "converse"
    /\ carry' = <<>>
    /\ modelCalls' = <<>>
    /\ toolCalls' = <<>>
    /\ notified' = <<>>
    /\ pending' = <<>>
    /\ blockIdx' = 1
    /\ toolResponse' = <<>>
    /\ UNCHANGED <<tools, callback, tags, apiCalls>>
    /\ UNCHANGED flowVars

NextInvoke ==
    \/ Setup
    \/ StartInvoke
    \/ Converse
    \/ ExecuteNextTool
    \/ InvokeToolResponse
    \/ ReturnStep
    \/ RaiseStep

SpecInvoke == InitAgent /\ [][NextInvoke]_vars

(***************************************************************************)
(* MCP agent: properties                                                   *)
(***************************************************************************)
\* A top-level call has returned or raised to its caller
Done == apc = "idle" /\ IsSet(turn)

Result == Get(carry)

ToolUseIds(content) ==
    LET uses == SelectSeq(content, LAMBDA b : b.kind = "toolUse")
    IN [i \in 1..Len(uses) |-> uses[i].toolUseId]

ResultIds(content) == [i \in 1..Len(content) |-> content[i].toolUseId]

\* No call of client.converse of this turn raised
AllAnswered == \A j \in 1..Len(modelCalls) : modelCalls[j].ok

\* The tool-use blocks the model emitted in this turn
RECURSIVE CountToolUses(_)
CountToolUses(k) ==
    IF k > Len(amessages) THEN 0
    ELSE Len(ToolUseIds(amessages[k].content)) * (IF amessages[k].stop = "tool_use" THEN 1 ELSE 0)
         + CountToolUses(k + 1)

C5_RegisteredToolNeverRaises ==
    \A i \in 1..Len(toolCalls) :
        LET c == toolCalls[i] IN
        Registered(tools, c.name)
        => /\ ~c.raised
           /\ c.result.toolUseId = c.toolUseId
           /\ c.result.status = "success" <=> (c.ran /\ c.behaviour # "raise")
           /\ c.result.status = "error" <=> (c.ran /\ c.behaviour = "raise")

\* The stubbed model has so far answered every call of this turn, with
\* tool-use turns and natural completions only
Scripted ==
    /\ IsSet(turn)
    /\ Get(turn).entry = "invoke"
    /\ modelCalls # <<>>
    /\ AllAnswered
    /\ \A j \in 1..Len(modelCalls) : modelCalls[j].stop \in StopNatural \cup {"tool_use"}

Dispatched(k) ==
    /\ amessages[k].stop = "tool_use"
    /\ ~(k = Len(amessages) /\ apc = "tools")

CallsFor(k) == SelectSeq(toolCalls, LAMBDA c : c.msg = k)

MaxTokensStops ==
    Cardinality({ j \in 1..Len(modelCalls) :
                    modelCalls[j].stop = "max_tokens" /\ modelCalls[j].attempt = Attempt })
MaxTokensFrames == Cardinality({ i \in 1..Len(stack) : stack[i] = "hr_max" })

\* C8: after a max_tokens stop the loop invokes itself again with the
\* continuation prompt as the next user message, and the call that hit the
\* limit returns no value, whatever the continuation returns: once its
\* frame has returned, the value handed down to the caller is None.
C8_MaxTokensReturnsNone ==
    /\ \A k \in 1..Len(amessages) :
         amessages[k].stop = "max_tokens"
         => /\ k < Len(amessages)
            /\ amessages[k + 1] = UserMsg(<<TextBlock(ContinuePrompt)>>, "continue")
    /\ (apc \in {"return", "idle"} /\ IsSet(carry) /\ Result.kind # "error"
        /\ MaxTokensStops > MaxTokensFrames)
       => Result.kind = "none"

\* C8 witness: the first call hit the limit, the continuation completed
\* with a text, and the top-level call returned None
C8_Witness ==
    /\ Done
    /\ Len(modelCalls) = 2
    /\ modelCalls[1].stop = "max_tokens"
    /\ modelCalls[2].stop \in StopNatural
    /\ FirstText(Last(amessages).content) # <<>>
    /\ Result.kind = "none"

\* C9 as the specification states it: a stop reason the loop does not
\* know ends the turn: no model invocation follows it, and the top-level
\* call raises an error that carries the raw stop reason, whatever the
\* entry point of the turn.
C9_UnknownStopReasonSurfaces ==
    \A j \in 1..Len(modelCalls) :
        (modelCalls[j].ok /\ modelCalls[j].stop \notin StopKnown)
        => /\ j = Len(modelCalls)
           /\ apc \in {"raise", "idle"}
           /\ Result.kind = "error"
           /\ Result.reason = modelCalls[j].stop

\* C10: a natural completion ends its invoke chain without a further
\* model invocation and returns the text of the first content block of
\* the output message ('' when there is none); with two output delimiters
\* configured and both in the text in that order, it returns the text
\* between an opening delimiter and the first closing delimiter after it,
\* and the whole text otherwise.
C10_NaturalCompletionAnswer ==
    /\ \A j \in 1..(Len(modelCalls) - 1) : modelCalls[j].stop \notin StopNatural
    /\ (apc = "return" /\ Result.kind = "value")
       => LET content == Last(amessages).content
              text == IF content # <<>> /\ content[1].kind = "text"
                      THEN content[1].text ELSE <<>>
              opens == IF Len(tags) = 2
                       THEN { i \in 1..Len(text) :
                                /\ OccursAt(text, tags[1], i)
                                /\ \E j \in (i + Len(tags[1]))..Len(text) :
                                     OccursAt(text, tags[2], j) }
                       ELSE {}
          IN /\ Last(amessages).stop \in StopNatural
             /\ IF opens # {}
                THEN \E i \in opens :
                       LET from == i + Len(tags[1])
                           j == Min({ n \in from..Len(text) : OccursAt(text, tags[2], n) })
                       IN Result.text = SubSeq(text, from, j - 1)
                ELSE Result.text = text

\* C10 witness: two delimiters configured, a text with nested delimiters,
\* the innermost part returned
C10_Witness ==
    /\ apc = "return"
    /\ Result.kind = "value"
    /\ tags = <<OpenTag, CloseTag>>
    /\ FirstText(Last(amessages).content) = AnswerNested
    /\ Result.text = <<"b">>

(***************************************************************************)
(* MCP agent: the tool registry (UtilityHelper)                            *)
(***************************************************************************)
\* C22: for every registered tool, whatever input schema it was registered
\* with, the specification get_tools returns for it has the root type of its
\* schema marked as 'object'.
C22_SpecRootTypeObject ==
    \A i \in DOMAIN GetTools(tools) : GetTools(tools)[i].inputSchema = "object"

\* The names register_tool was called with, in order: those of the set-up
\* the agent was given
Registrations ==
    IF apc = "new" THEN <<>>
    ELSE (CHOOSE c \in Setups : c.callback = callback /\ c.tags = tags).defs

RegisteredNames == { Registrations[i] : i \in DOMAIN Registrations }

\* The last registration whose name satisfies Same
LastRegistration(Same(_)) ==
    Registrations[Max({ i \in DOMAIN Registrations : Same(Registrations[i]) })]

\* The registry entry a call of the tool named key reaches is the one
\* registration d made
DispatchesTo(key, d) ==
    /\ Registered(tools, key)
    /\ Get(tools[key]).function = d.func
    /\ Get(tools[key]).description = d.description
    /\ Get(tools[key]).original_name = d.name

\* C23 as stated: get_tools returns exactly one specification per distinct
\* registered name, a call of a registered name reaches the most recent
\* registration of that same name, and registering a name never replaces a
\* tool registered under another name.
C23_OneSpecPerRegisteredName ==
    /\ Len(GetTools(tools)) = Cardinality(RegisteredNames)
    /\ \A n \in RegisteredNames :
         DispatchesTo(CorrectName(n), ToolDef(LastRegistration(LAMBDA m : m = n)))

\* C23 amended: names are compared after hyphens are replaced by
\* underscores. get_tools returns exactly one specification per distinct
\* corrected name, named by it; a call of a corrected name reaches the most
\* recent registration whose corrected name it is; no other key has an entry.
C23_OneSpecPerCorrectedName ==
    LET keys == { CorrectName(n) : n \in RegisteredNames }
        specs == GetTools(tools)
    IN /\ Len(specs) = Cardinality(keys)
       /\ { specs[i].name : i \in DOMAIN specs } = keys
       /\ \A k \in keys :
            DispatchesTo(k, ToolDef(LastRegistration(LAMBDA m : CorrectName(m) = k)))
       /\ \A k \in DOMAIN tools : Registered(tools, k) => k \in keys

\* C23 witness: get-weather and then get_weather were registered; one
\* specification is returned and the name reaches the second registration
C23_Witness ==
    /\ Registrations = <<NameGetWeatherHyphen, NameGetWeather>>
    /\ Len(GetTools(tools)) = 1
    /\ GetTools(tools)[1].name = NameGetWeather
    /\ Get(tools[NameGetWeather]).function = "call_tool_2"
    /\ modelCalls # <<>>

\* What execute_tool does on the request of tool call c when no observer is
\* registered
WithoutObserver(c) ==
    ExecuteTool([toolUseId |-> c.toolUseId, name |-> c.name], tools, "unset")

\* C24: an exception of the observer, on tool_start, tool_complete or
\* tool_error, never leaves execute_tool and changes neither whether the tool
\* is executed nor the result returned to the loop: every call on a
\* registered tool ends as it would for the same tool without an observer.
C24_ObserverNeverInterferes ==
    \A i \in 1..Len(toolCalls) :
        LET c == toolCalls[i] IN
        Registered(tools, c.name)
        => \E o \in WithoutObserver(c) :
             /\ c.raised = o.raised
             /\ c.ran = o.ran
             /\ c.behaviour = o.behaviour
             /\ c.result = o.result


\* The step is a call of execute_tool on a registered tool with an observer
\* that does not raise
ObservedCall ==
    /\ callback = "ok"
    /\ Len(toolCalls') = Len(toolCalls) + 1
    /\ Registered(tools, Last(toolCalls').name)

\* What the observer was told during the step
Told == SubSeq(notified', Len(notified) + 1, Len(notified'))

\* tool_start, the tool run, then one of tool_complete and tool_error
StartThenOneEnd ==
    /\ Last(toolCalls').ran
    /\ Len(Told) = 2
    /\ Told[1].event = "tool_start"
    /\ Told[2].event = IF Last(toolCalls').behaviour = "raise"
                       THEN "tool_error" ELSE "tool_complete"

\* C32: with an observer that does not raise, every execute_tool call on a
\* registered tool tells it tool_start before the tool runs and then exactly
\* one of tool_complete (the tool returned) and tool_error (the tool raised),
\* whatever the tool returned.
C32_StartThenCompleteOrError == [][ObservedCall => StartThenOneEnd]_vars

\* The same for the tools that return the dict of MCPClient.call_tool or
\* raise: it holds
C32_StartThenCompleteOrErrorDict ==
    [][(ObservedCall /\ Last(toolCalls').behaviour # "legacy") => StartThenOneEnd]_vars

\* User and assistant messages alternate, the first one a user message
Alternates(msgs) ==
    \A i \in DOMAIN msgs : msgs[i].role = IF i % 2 = 1 THEN "user" ELSE "assistant"

\* C33: after any sequence of top-level calls on the agent, calls in which the
\* model invocation or a tool dispatch failed included, the conversation
\* alternates user and assistant messages, starting with a user message.
C33_ConversationAlternates == apc = "idle" => Alternates(amessages)

\* What holds after every call: no two assistant messages follow each other
\* and the conversation does not start with one
C33_NoTwoAssistantMessages ==
    apc = "idle" =>
        \A i \in DOMAIN amessages :
            amessages[i].role = "assistant" => (i > 1 /\ amessages[i - 1].role = "user")

\* The user messages the call that is going on, or the last one, added for
\* its prompt: the prompt itself, its text-only fallback, its text-only retry
PromptMessages ==
    { i \in Get(turn).start..Len(amessages) :
        amessages[i].role = "user" /\ amessages[i].src \in {"prompt", "fallback", "retry"} }

\* C34: a call of invoke_with_prompt adds exactly one user message that
\* carries the prompt, also when the prompt has an image URL and the model
\* invocation or a tool dispatch fails after the image was attached.
C34_PromptSubmittedOnce == IsSet(turn) => Cardinality(PromptMessages) = 1

\* The same for the calls that did not reach the except clause after a
\* failure of invoke: it holds
C34_PromptSubmittedOnceNoFallback ==
    (IsSet(turn) /\ \A i \in PromptMessages : amessages[i].src # "fallback")
        => Cardinality(PromptMessages) = 1

\* The step is a model call that was rejected for invalid image content
Rejected ==
    /\ apc = "converse"
    /\ Len(modelCalls') > Len(modelCalls)
    /\ modelCalls'[Len(modelCalls) + 1].stop = "ValidationException"

\* The conversation with its last message replaced by the first text of it
TextOnly ==
    Append(SubSeq(amessages, 1, Len(amessages) - 1),
           UserMsg(<<TextBlock(Get(FirstTextOf(Last(amessages).content)))>>, "retry"))

\* The rejected message is replaced by its text and the model is called
\* once more, the number of messages as before
RetriedOnce ==
    /\ Len(modelCalls') = Len(modelCalls) + 2
    /\ modelCalls'[Len(modelCalls') ].stop # "ValidationException"
    /\ IsPrefix(TextOnly, amessages')
    /\ Len(TextOnly) = Len(amessages)

\* C35: when the model call is rejected for invalid image content, the last
\* user message is replaced by a user message with its first text part only
\* and the model is called again exactly once, the number of messages
\* unchanged by the retry; when the rejected message has no text part the
\* conversation is left as it was before the call and an error is raised.
C35_InvalidImageRetry ==
    [][Rejected =>
         IF IsSet(FirstTextOf(Last(amessages).content))
         THEN RetriedOnce
         ELSE /\ amessages' = amessages
              /\ Len(modelCalls') = Len(modelCalls) + 1
              /\ apc' = "raise"]_vars

\* What the code does without a text part: the rejected message is removed
\* and stays removed when the error is raised
C35_InvalidImageRetryRemoving ==
    [][Rejected =>
         IF IsSet(FirstTextOf(Last(amessages).content))
         THEN RetriedOnce
         ELSE /\ amessages' = SubSeq(amessages, 1, Len(amessages) - 1)
              /\ Len(modelCalls') = Len(modelCalls) + 1
              /\ apc' = "raise"]_vars

\* The schema the tool stored under key k was registered with
SchemaPassed(k) == ToolDef(Get(tools[k]).original_name).input_schema

\* C36: get_tools has no effect on the registry: after any number of
\* get_tools calls the stored input schema of every registered tool is the
\* schema that was passed to register_tool, and two get_tools calls in a row
\* return equal results.
C36_GetToolsLeavesRegistry ==
    /\ \A k \in DOMAIN tools :
         Registered(tools, k) => Get(tools[k]).input_schema = SchemaPassed(k)
    /\ GetTools(AfterGetTools(tools)) = GetTools(tools)

\* What holds: a second get_tools call returns what the first one returned
\* and changes nothing more
C36_GetToolsTwiceEqual ==
    /\ GetTools(AfterGetTools(tools)) = GetTools(tools)
    /\ AfterGetTools(AfterGetTools(tools)) = AfterGetTools(tools)
====
